---- MODULE Spec2Model ----
(***************************************************************************)
(* PolyBot: multi-venue GBM fair-probability engine with basis calibration *)
(* against the Polymarket order book, and the self-healing venue feeds.    *)
(*                                                                         *)
(* Number representation                                                   *)
(*   probabilities   integers in units of 1e-4   (0.5 = 5000)              *)
(*   prices          integers (price units)                                *)
(*   log returns, sigma   integers in units of 1e-6                        *)
(*   ewmaVariance    integers in units of 1e-12                            *)
(*   time            integers, milliseconds                                *)
(*   NaN / undefined two reserved integers (NaN, Undef)                    *)
(***************************************************************************)
EXTENDS Integers, Sequences, FiniteSets, TLC

\* NaN and undefined are two integers far below every number of the model;
\* every operator that can meet them tests for them before it computes.
NaN == 0 - 2000000000
Undef == NaN - 1
NoTimer == 0 - 1

Assets == {"BTC", "ETH"}

\* AssetSymbol: the assets a price source keeps fields for.
AssetSymbols == {"BTC", "ETH", "SOL", "XRP"}
Sides == {"UP", "DOWN"}

\* Venues of the active set that the model follows: one venue whose adapter
\* rejects unparseable prices and owns a watchdog (BINANCE), and two venues
\* with the plain adapter (BYBIT, OKX).
ACTIVE_EXCHANGES == {"BINANCE", "BYBIT", "OKX"}

\* Venues getCombinedExchangeFair filters out by name, besides the anchor.
NonComparable == {"DEEPCOIN", "COINBASE", "BINANCE"}

\* Values the configuration constant DELTA_ANCHOR_EXCHANGE is drawn from,
\* and the one the feed and calibration runs are configured with.
AnchorChoices == {"BINANCE", "BYBIT"}
DefaultAnchor == "BINANCE"

----------------------------------------------------------------------------
\* Program constants

\* probability 1 in the model's unit
ProbScale == 10 * 1000
ClampLo == 10
ClampHi == 9990
Neutral == 5000
WindowMs == 900000
SpikeWindowMs == 500
SpikePctMilli == 35
ConvergeEps == 50
LatchTimeoutMs == 3000
FairThrottleMs == 50
LambdaMilli == 985
MinSigmaMicro == 250
GapRiskMicro == 1000
RetentionMs == 60000
BackoffStepMs == 1000
BackoffCapMs == 10000
HealthIntervalMs == 2000
StaleAfterMs == 5000
BookStaleAfterMs == 15000
BookHealthIntervalMs == 2000
BookBackoffCapMs == 8000
RolloverGraceMs == 2000
\* config.TRADE_COOLDOWN, default 20 s, in ms
TradeCooldownMs == 20000
\* config.PRICE_DIFFERENCE_THRESHOLD, default 0.018, in units of 1e-4
PriceDifferenceThreshold == 180

----------------------------------------------------------------------------
\* Bounds of the model

\* trade messages over a run of the fair engine
MaxTicks == 2
\* order-book messages over a run of the fair engine
MaxBookMsgs == 2
\* clock advances over a run of the fair engine (hybrid fair, combined fair)
MaxAdvances == 2
\* clock advances over a run of the basis calibration
MaxBasisAdvances == 4
\* consecutive reconnect attempts followed per feed
MaxAttempts == 11
\* messages without a trade over a run of the feeds
MaxFrames == 1
\* clock horizon of the feed runs, in seconds after start
MaxFeedSeconds == 56
\* clock horizon of the runs in which every feed retries, in seconds after
\* start
MaxRetrySeconds == 8
\* sockets a feed makes over a run that follows them one by one
MaxSockets == 3
\* clock horizon of the runs in which the order-book feed fails again and
\* again, in seconds after start
MaxBookRetrySeconds == 46
\* clock horizon of the order-book feed runs, in seconds after start
MaxBookSeconds == 24
\* messages on the order-book socket over a run of the order-book feed
MaxBookFrames == 2
\* clock advances over a run of the rollover
MaxRollAdvances == 3
\* rollover checks that find an expired window, over a run of the rollover
MaxRollovers == 2
\* clock advances over a run of the trading interval
MaxTradeAdvances == 3
\* trade messages over a run of the trading interval
MaxTradeTicks == 1
\* order-book messages over a run of the trading interval
MaxTradeQuotes == 1
\* clock advances over a run of the rollover with the order-book socket
MaxResubAdvances == 9
\* failed connection attempts in a row of the order-book socket in such a run
MaxResubAttempts == 2
\* clock advances over a run of the recompute scheduling
MaxSchedAdvances == 4

\* calls made on the model object over a run of the calculator
MaxCalcCalls == 3
\* clock advances over a run of the calculator
MaxCalcAdvances == 2

\* The clock at start-up (an arbitrary epoch, ms).
T0 == 1000 * 1000

\* Amounts by which the clock advances between events of the fair engine.
TimeSteps == {500, 3000}

\* The clock step of the feed runs: every timer of a feed is due at a
\* multiple of it.
FeedStepMs == 1 * 1000

\* Prices on the wire: unparseable, and two valid prices (the second is
\* 0.036 % above the first).
BasePrice == 100 * 1000

\* Trades of the fair-engine runs, as (venue, price field).
LiveTicks == { <<"BINANCE", NaN>>, <<"BINANCE", BasePrice + 36>>,
               <<"BYBIT", NaN>>, <<"BYBIT", BasePrice + 36>>,
               <<"OKX", NaN>>, <<"OKX", BasePrice>> }

\* The venue whose trades arrive in the basis-calibration runs, and their prices.
BasisVenue == "BYBIT"
BasisPrices == {BasePrice, BasePrice + 36}

\* Assets for which trades and book messages arrive in the fair-engine runs.
LiveAssets == {"BTC"}

\* Best bid / best ask pairs on the order-book wire (units of 1e-4).
WireQuotes == { <<0, 5000>>, <<5000, 5000>>, <<5200, 5220>>, <<9995, 9995>> }

\* Order-book messages of the fair-engine runs: any quote for the UP token,
\* one quote for the DOWN token.
LiveQuotes == { <<"UP", q>> : q \in WireQuotes } \cup { <<"DOWN", <<5000, 5000>> >> }

\* Quotes for the UP token in the basis-calibration runs.
BasisQuotes == { <<5000, 5000>>, <<5200, 5220>> }

\* Feeds followed in the feed runs, and the one whose connection the network
\* drops or refuses at arbitrary moments.
FeedVenues == {"BINANCE", "BYBIT"}
FlakyVenues == {"BYBIT"}

\* Clock steps of the rollover runs: a short one after start-up, a long one
\* that takes the clock to the last instant at which the first window is not
\* yet treated as expired, and short ones from there.
ShortStepMs == SpikeWindowMs
LongStepMs == WindowMs + RolloverGraceMs - 300000 - ShortStepMs

\* The clock step of the scheduling runs, half the recompute throttle.
SchedStepMs == FairThrottleMs \div 2

\* The trade price and the UP quote of the scheduling runs.
SchedPrice == BasePrice + 36
SchedQuote == <<5200, 5220>>

\* The open price discovery fetches for the window that follows the first.
NextWindowPrice == BasePrice + 100

\* What one findMarket call can end in.
Outcomes == {"found", "failed"}
\* The same with the search that finds the window but not its open price.
PriceOutcomes == Outcomes \cup {"noprice"}

\* Trades of the rollover runs, as (venue, price field), and their
\* order-book messages, as (side, quote).
RollTicks == { <<"BINANCE", BasePrice + 36>> }
RollQuotes == { <<"UP", <<5200, 5220>> >>, <<"DOWN", <<4800, 4800>> >> }
\* Order-book messages of the trading runs.
TradeQuotes == { <<"UP", <<3000, 3020>> >>, <<"DOWN", <<4800, 4800>> >> }

\* Trade messages of the wire runs, as the list of their entries
\* (kind, asset, price field): a trade, or "bad" for an entry whose handling
\* throws (null in place of the trade object).
BadEntry == <<"bad", "BTC", 0>>

WireMessages ==
    { << <<"trade", "BTC", BasePrice + 36>> >>,
      << BadEntry >>,
      << <<"trade", "BTC", BasePrice + 36>>, BadEntry >>,
      << <<"trade", "BTC", BasePrice>>, BadEntry >>,
      << BadEntry, <<"trade", "BTC", BasePrice + 36>> >> }

\* The two classes gbm.ts is found as: without and with smoothing.
GbmClasses == {"plain", "smooth"}

\* Calls on the model object in the calculator runs: the prices addPrice is
\* given, the arguments of calculate (ms of window left in place of minutes),
\* the window of getRecentPctChange, and the amounts by which the clock moves
\* between calls.
CalcPrices == {NaN, BasePrice, BasePrice + 36}
CalcCurrent == {NaN, 0, BasePrice, BasePrice + 36}
CalcStart == {0, BasePrice}
CalcTau == {0, 1000, 600000}
CalcSteps == {500, 3000, 60500}

\* Trades on the Bitfinex socket, as (asset of the channel, price field).
BitfinexTicks == { <<a, p>> : a \in AssetSymbols, p \in {NaN, BasePrice, BasePrice + 36} }

\* Trades of the other venues in the venue runs, as (venue, price field).
VenueTicks == { <<"BINANCE", BasePrice + 36>>, <<"BINANCE", BasePrice + 72>>,
                <<"BYBIT", BasePrice + 36>> }

----------------------------------------------------------------------------
\* Arithmetic helpers (JavaScript Math.* on the scaled integers)

IsNum(x) == x # NaN /\ x # Undef

Abs(x) == IF x < 0 THEN -x ELSE x

Max(a, b) == IF a >= b THEN a ELSE b

Min(a, b) == IF a <= b THEN a ELSE b

\* Division truncating toward zero.
Quot(a, b) == IF a >= 0 THEN a \div b ELSE -((-a) \div b)

\* Math.sqrt on a non-negative integer: the integer part of the root.
RECURSIVE SqrtFrom(_, _)
SqrtFrom(n, r) == IF (r + 1) * (r + 1) > n THEN r ELSE SqrtFrom(n, r + 1)

RECURSIVE ISqrt(_)
ISqrt(n) == IF n < 4 THEN SqrtFrom(n, 0)
            ELSE LET h == 2 * ISqrt(n \div 4) IN SqrtFrom(n, h)

\* Math.max(0.001, Math.min(0.999, x)); NaN goes through Math.min and
\* Math.max unchanged.
Clamp(x) == IF x = NaN THEN NaN ELSE Max(ClampLo, Min(ClampHi, x))

\* history.filter((p) => p.ts > cutoff)
RECURSIVE Newer(_, _)
Newer(h, cutoff) ==
    IF h = << >> THEN << >>
    ELSE IF Head(h).ts > cutoff THEN << Head(h) >> \o Newer(Tail(h), cutoff)
    ELSE Newer(Tail(h), cutoff)

\* a - b and a + b of JavaScript numbers
Sub(a, b) == IF a = NaN \/ b = NaN THEN NaN ELSE a - b

Add(a, b) == IF a = NaN \/ b = NaN THEN NaN ELSE a + b

\* x || 0 : undefined, NaN and 0 give 0
OrZero(x) == IF x = Undef \/ x = NaN THEN 0 ELSE x

\* a <= 0 and a > 0 on a JavaScript number: both false for NaN
LeqZero(x) == x # NaN /\ x <= 0

GtZero(x) == x # NaN /\ x > 0

----------------------------------------------------------------------------
\* GBMFairProbability (gbm.ts)

\* Math.log(a / b) for positive a, b, in units of 1e-6 (series to 2nd order).
LogMicro(a, b) ==
    LET x == Quot((a - b) * 1000000, b) IN x - Quot(x * x, 2000000)

\* An addPrice that drops no tick.
PruneNone(h, cutoff) == h

\* history.shift() while the oldest tick is older than the cutoff
RECURSIVE Prune(_, _)
Prune(h, cutoff) ==
    IF Len(h) > 0 /\ h[1].ts < cutoff THEN Prune(Tail(h), cutoff) ELSE h

\* addPrice(price) at time t on model g = [history, ewmaVariance, lastFairUp]
AddPrice(g, price, t) ==
    LET h == Prune(Append(g.history, [ts |-> t, price |-> price]), t - RetentionMs)
        n == Len(h)
        prev == IF n > 1 THEN h[n - 1].price ELSE 0
        r == LogMicro(price, prev)
    IN  [g EXCEPT
           !.history = h,
           !.ewmaVariance =
              IF n > 1 /\ GtZero(prev) /\ GtZero(price)
              THEN Quot(LambdaMilli * g.ewmaVariance + (1000 - LambdaMilli) * r * r, 1000)
              ELSE g.ewmaVariance]

\* addPrice(price) of the class with smoothing: 48 hours are kept.
AddPriceLong(g, price, t) ==
    LET h == Newer(Append(g.history, [ts |-> t, price |-> price]), t - 48 * 3600 * 1000)
        n == Len(h)
        prev == IF n > 1 THEN h[n - 1].price ELSE 0
        r == LogMicro(price, prev)
    IN  [g EXCEPT
           !.history = h,
           !.ewmaVariance =
              IF n > 1 /\ GtZero(prev) /\ GtZero(price)
              THEN Quot(LambdaMilli * g.ewmaVariance + (1000 - LambdaMilli) * r * r, 1000)
              ELSE g.ewmaVariance]

\* Index of the most recent tick with ts <= target, 0 if none.
RECURSIVE FindPast(_, _, _)
FindPast(h, i, target) ==
    IF i = 0 THEN 0
    ELSE IF h[i].ts <= target THEN i ELSE FindPast(h, i - 1, target)

\* getRecentPctChange(ms), in units of 0.001 %
GetRecentPctChange(h, ms) ==
    IF Len(h) < 2 THEN 0
    ELSE LET last == h[Len(h)]
             i == FindPast(h, Len(h), last.ts - ms)
         IN  IF i = 0 THEN 0
             ELSE IF last.price = NaN \/ h[i].price = NaN THEN NaN
             ELSE Quot((last.price - h[i].price) * 100000, h[i].price)

\* estimateVolatilityPerMinute(), in units of 1e-6
EstimateVolatilityPerMinute(ewma) ==
    IF ewma = 0 THEN MinSigmaMicro
    ELSE Max(ISqrt(ewma * 60), MinSigmaMicro)

\* The standard normal CDF at 0, 0.25, ..., 4.0 (units of 1e-4).
PhiTable == << 5000, 5987, 6915, 7734, 8413, 8944, 9332, 9599, 9772,
               9878, 9938, 9970, 9987, 9994, 9998, 9999, 10000 >>

\* normCDF(x) with x in units of 0.01: the table, linearly interpolated;
\* 1 (resp. 0) beyond +4 (resp. -4), which the caller's clamp absorbs.
PhiPos(d) ==
    IF d >= 400 THEN ProbScale
    ELSE LET i == d \div 25
             f == d % 25
         IN  PhiTable[i + 1] + ((PhiTable[i + 2] - PhiTable[i + 1]) * f) \div 25

NormCDF(d) ==
    IF d = NaN THEN NaN
    ELSE IF d >= 0 THEN PhiPos(d) ELSE ProbScale - PhiPos(-d)

\* sigma * sqrt(tau) of calculate, as the pair (sigma in 1e-6, sqrt(tau) in 1e-3);
\* tau is given in ms of window left.
SqrtTauMilli(tauMs) == ISqrt(Quot(tauMs * 50, 3))

\* The volatility without the gap-risk floor.
SigmaNoGapRisk(ewma, tauMs) == EstimateVolatilityPerMinute(ewma)

SigmaMicro(ewma, tauMs) ==
    Max(EstimateVolatilityPerMinute(ewma),
        Quot(GapRiskMicro * 1000, Max(100, SqrtTauMilli(tauMs))))

\* d = ln(currentPrice/startPrice) / (sigma * sqrt(tau)), in units of 0.01
DArg(ewma, currentPrice, startPrice, tauMs) ==
    IF currentPrice = NaN \/ startPrice = NaN THEN NaN
    ELSE Quot(LogMicro(currentPrice, startPrice) * 100000,
              SigmaMicro(ewma, tauMs) * SqrtTauMilli(tauMs))

\* calculate(currentPrice, startPrice, minutesRemaining).UP; DOWN is 1 - UP.
\* minutesRemaining = tauMs / 60000.
CalculateUp(ewma, currentPrice, startPrice, tauMs) ==
    IF tauMs <= 0 \/ LeqZero(currentPrice) \/ LeqZero(startPrice)
    THEN IF IsNum(currentPrice) /\ IsNum(startPrice) /\ currentPrice >= startPrice
         THEN ProbScale ELSE 0
    ELSE Clamp(NormCDF(DArg(ewma, currentPrice, startPrice, tauMs)))

\* The one-hot test with > in place of >=.
OneHotStrict(currentPrice, startPrice) ==
    IF IsNum(currentPrice) /\ IsNum(startPrice) /\ currentPrice > startPrice
    THEN ProbScale ELSE 0

\* up = currentPrice >= startPrice ? 1 : 0
OneHot(currentPrice, startPrice) ==
    IF IsNum(currentPrice) /\ IsNum(startPrice) /\ currentPrice >= startPrice
    THEN ProbScale ELSE 0

\* minutesRemaining <= 0 || currentPrice <= 0 || startPrice <= 0
Degenerate(currentPrice, startPrice, tauMs) ==
    tauMs <= 0 \/ LeqZero(currentPrice) \/ LeqZero(startPrice)

\* 1 - x on a JavaScript number, probabilities in the model's unit
OneMinus(x) == IF x = NaN THEN NaN ELSE ProbScale - x

\* calculate() of the class without smoothing, on the model g: the result
\* and the model it leaves.
Calculate(g, currentPrice, startPrice, tauMs) ==
    IF Degenerate(currentPrice, startPrice, tauMs)
    THEN [UP |-> OneHot(currentPrice, startPrice),
          DOWN |-> ProbScale - OneHot(currentPrice, startPrice), g |-> g]
    ELSE LET fairUp == Clamp(NormCDF(DArg(g.ewmaVariance, currentPrice, startPrice, tauMs)))
         IN  [UP |-> fairUp, DOWN |-> OneMinus(fairUp),
              g |-> [g EXCEPT !.lastFairUp = fairUp]]

\* Math.exp(-x) for x >= 0 in units of 1e-6, in units of 1e-3: the series to
\* 3rd order below 0.25, squaring of the half above.
RECURSIVE ExpNeg(_)
ExpNeg(x) ==
    IF x > 250000
    THEN LET h == ExpNeg(x \div 2) IN (h * h) \div 1000
    ELSE LET y == x \div 1000
         IN  1000 - y + (y * y) \div 2000 - (y * y * y) \div (6 * 1000 * 1000)

\* The shock window and threshold of the smoothing calculate(): 2 s, 0.15 %.
ShockWindowMs == 2000
ShockPctMilli == 150

\* calculate() of the class with smoothing, on the model g: the result and
\* the model it leaves.  Weights in units of 1e-3.
CalculateSmooth(g, currentPrice, startPrice, tauMs) ==
    IF Degenerate(currentPrice, startPrice, tauMs)
    THEN [UP |-> OneHot(currentPrice, startPrice),
          DOWN |-> ProbScale - OneHot(currentPrice, startPrice), g |-> g]
    ELSE IF currentPrice = NaN \/ startPrice = NaN
              \/ GetRecentPctChange(g.history, ShockWindowMs) = NaN
    THEN [UP |-> NaN, DOWN |-> NaN, g |-> [g EXCEPT !.lastFairUp = NaN]]
    ELSE LET baseSigma == EstimateVolatilityPerMinute(g.ewmaVariance)
             recentPct == Abs(GetRecentPctChange(g.history, ShockWindowMs))
             spikeSeverity == Quot(Min(ShockPctMilli, recentPct) * 1000, ShockPctMilli)
             logRet == LogMicro(currentPrice, startPrice)
             moneyness == Abs(logRet)
             timeFactor == Min(1000, Quot(tauMs, 900))
             shockWeight == Quot(Quot(spikeSeverity * ExpNeg(6 * moneyness), 1000)
                                   * timeFactor, 1000)
             effectiveSigma == baseSigma + Quot(baseSigma * 3 * shockWeight, 2000)
             drift == Quot(Quot(effectiveSigma * effectiveSigma, 1000) * Quot(tauMs, 1000),
                           120000)
             d == Quot((logRet - drift) * 100000, effectiveSigma * SqrtTauMilli(tauMs))
             fairUp == Clamp(NormCDF(d))
             relax == 800 + Quot(Quot(2500 * ExpNeg(5 * moneyness), 1000) * timeFactor, 1000)
             smoothed == IF g.lastFairUp = Undef THEN fairUp
                         ELSE IF g.lastFairUp = NaN THEN NaN
                         ELSE Quot(g.lastFairUp * (ProbScale - relax) + fairUp * relax,
                                   ProbScale)
         IN  [UP |-> smoothed, DOWN |-> OneMinus(smoothed),
              g |-> [g EXCEPT !.lastFairUp = smoothed]]

----------------------------------------------------------------------------
\* State

VARIABLES
    now,              \* Date.now()
    anchor,           \* DELTA_ANCHOR_EXCHANGE
    startTimes,       \* AutoTradingBot.startTimes[asset]
    startPrices,      \* AutoTradingBot.startPrices[asset]
    prices,           \* AutoTradingBot.prices[asset]
    lastFairUpdate,   \* AutoTradingBot.lastFairUpdate
    srcPrice,         \* <venue><ASSET>Price of each price source
    srcStartPrice,    \* <venue>StartPrices[asset] of each price source
    binanceStartTime, \* BinancePerpSource.binanceStartTime<ASSET>
    gbm,              \* GBMFairProbability per asset and venue
    book,             \* PolymarketWs.book[asset][side], with the asset id of
                      \* the message that wrote the entry (token; 0: none)
    tokenIds,         \* PolymarketWs.tokenIds[asset]: 0 (null) or the window's number
    polyLastMessageTs,\* PolymarketWs.lastMessageTs
    fairProbs,        \* FairCalculator.fairProbs[asset]
    fairByExchange,   \* FairCalculator.fairByExchange[asset][venue]
    basis,            \* FairCalculator.basis[asset][venue]
    latchStart,       \* FairCalculator.latchStart[asset][venue]
    ws,               \* each source's socket: "connecting", "open" or "closed"
    reconnectAttempts,\* the closure variable of each source's connect()
    reconnectTimer,   \* due time of the pending setTimeout(connect, ...), or NoTimer
    timerDelay,       \* the delay that setTimeout was given
    lastMessageTs,    \* each source's lastMessageTs
    healthTimer,      \* next firing of the source's healthInterval, or NoTimer
    closesSinceOpen,  \* observer: close events of a feed since its last open event
    lastRecompute,    \* observer: what the last updatePerExchangeFairs met, per pair
    divergedSince,    \* observer: time of the first of the consecutive recomputes
                      \* that left the pair diverged, 0 if the last one did not
    nTicks, nBookMsgs, nAdvances, nFrames,  \* events used of the run's budgets
    finder,           \* MarketFinder: start time, start price, token ids per asset
    rolloverPc,       \* checkMarketRollover: "idle", or "discovering" while a call
                      \* awaits findMarkets()
    nRollovers,       \* rollovers completed (budget of the rollover runs)
    rolledTo,         \* observer: the start time discovery found for the asset
                      \* in the last completed rollover, 0 if it failed or none ran
    quietSinceRollover, \* observer: a rollover has completed and no trade or
                      \* order-book message has arrived since
    polyWs,           \* PolymarketWs socket: "connecting", "open", "closing", "closed"
    polyAttempts,     \* reconnectAttempts of PolymarketWs.connect()
    polyReconnectTimer, \* due time of its setTimeout(connect, ...), or NoTimer
    polyHealthTimer,  \* next firing of its healthInterval, or NoTimer
    polyConnectedAt,  \* observer: when connect() created the current socket
    polyTeardown,     \* observer: the last terminate() by the watchdog
    conn,             \* per feed, the objects its connect() has made: the state of
                      \* every socket, which one this.ws is, the pending
                      \* setTimeout(connect) calls, the running health intervals
    polySub,          \* the token id per asset in the last subscription sent on
                      \* the current order-book socket (0: none)
    lastWire,         \* observer: the last multi-trade wire message handled
    fairRuns,         \* observer: times of the last two runs of updateAllFairs
    ranInRollover,    \* observer: updateAllFairs ran while a rollover awaited
    bitfinex,         \* BitfinexPerpSource: prices, start prices, start times, models
    rollAwaiting,     \* the calls of checkMarketRollover that await findMarkets()
    lastCheck,        \* observer: when checkMarketRollover last ran its expiry
                      \* test, and whether it went on to discovery
    calc,             \* a GBMFairProbability object driven call by call, with
                      \* what its last call was given, returned and found
    trade             \* tradingEnabled, TradingLogic.lastTradeTime, the value
                      \* of now held by each trading callback that awaits the
                      \* rollover, and per asset the last order initiated

botVars == << startTimes, startPrices, prices, lastFairUpdate >>
srcVars == << srcPrice, srcStartPrice, binanceStartTime, gbm >>
polyVars == << book, tokenIds, polyLastMessageTs >>
fairVars == << fairProbs, fairByExchange, basis, latchStart, lastRecompute,
              divergedSince, fairRuns, ranInRollover >>
connVars == << ws, reconnectAttempts, reconnectTimer, timerDelay, healthTimer,
               closesSinceOpen, conn >>
budgetVars == << nTicks, nBookMsgs, nAdvances, nFrames >>
rollVars == << finder, rolloverPc, nRollovers, rolledTo, lastCheck, rollAwaiting >>
bookConnVars == << polyWs, polyAttempts, polyReconnectTimer, polyHealthTimer,
                   polyConnectedAt, polyTeardown, polySub >>
otherVars == << rollVars, bookConnVars, lastWire, bitfinex, calc, trade >>

vars == << now, anchor, botVars, srcVars, polyVars, fairVars, connVars,
           lastMessageTs, budgetVars, otherVars, quietSinceRollover >>

----------------------------------------------------------------------------
\* FairCalculator (fairCalculator.ts).  The operators take the price-source
\* state (G: models, P: current prices, SP: start prices) and the book B as
\* the handler that calls them has left it.

\* ms left in the asset's window; minsLeft = TauMs / 60000
TauMs(a, t) == startTimes[a] + WindowMs - t

\* The spike test with the threshold written as 0.35.
IsSpikeLoose(pct) == pct # NaN /\ Abs(pct) > 10 * SpikePctMilli

\* isSpike = Math.abs(recentPct) > 0.035
IsSpike(pct) == pct # NaN /\ Abs(pct) > SpikePctMilli

\* Math.abs(x - y) < eps on JavaScript numbers (false when a side is NaN)
Within(x, y, eps) == x # NaN /\ y # NaN /\ Abs(x - y) < eps

\* The convergence test with && in place of ||.
ConvergedBoth(fairUp, currentBasis, polyUp) ==
    /\ Within(Add(fairUp, currentBasis), polyUp, ConvergeEps)
    /\ Within(fairUp, polyUp, ConvergeEps)

\* diff < 0.005 || rawDiff < 0.005
Converged(fairUp, currentBasis, polyUp) ==
    \/ Within(Add(fairUp, currentBasis), polyUp, ConvergeEps)
    \/ Within(fairUp, polyUp, ConvergeEps)

\* The timeout test with >= in place of >.
TimedOutAtLeast(t, latch) == t - latch >= LatchTimeoutMs

\* now - latchStart > 3000
TimedOut(t, latch) == t - latch > LatchTimeoutMs

\* A first offset of 0 in place of polyUp - fairUp.
InitialBasisZero(polyUp, fairUp) == 0

\* this.basis[symbol][exch] = polyUp - fairUp, for a pair without an offset
InitialBasis(polyUp, fairUp) == Sub(polyUp, fairUp)

\* The body of ACTIVE_EXCHANGES.forEach in updatePerExchangeFairs for one
\* venue: the new fairByExchange, basis, latchStart and lastFairUp of (a, v).
ExchangeFair(a, v, t, G, P, SP, B) ==
    LET currentPrice == P[a][v]
        startPrice == SP[a][v]
        fairUp == CalculateUp(G[a][v].ewmaVariance, currentPrice, startPrice, TauMs(a, t))
        polyUp == B[a]["UP"].mid
        recentPct == GetRecentPctChange(G[a][v].history, SpikeWindowMs)
        basis0 == IF basis[a][v] = Undef THEN InitialBasis(polyUp, fairUp) ELSE basis[a][v]
        latch0 == latchStart[a][v]
        converged == Converged(fairUp, basis0, polyUp)
        latch1 == IF latch0 = Undef \/ latch0 = 0 THEN t ELSE latch0
        snaps == ~IsSpike(recentPct) /\ (converged \/ TimedOut(t, latch1))
        newBasis == IF polyUp <= 0 THEN basis[a][v]
                    ELSE IF snaps THEN Sub(polyUp, fairUp)
                    ELSE basis0
        newLatch == IF polyUp <= 0 THEN latch0
                    ELSE IF IsSpike(recentPct) \/ snaps THEN 0
                    ELSE latch1
        newFair == Clamp(Add(fairUp, OrZero(newBasis)))
        leftDiverged == polyUp > 0 /\ ~Within(newFair, polyUp, ConvergeEps)
    IN  IF LeqZero(currentPrice) \/ LeqZero(startPrice)
        THEN [fair |-> Neutral, basis |-> basis[a][v], latch |-> latchStart[a][v],
              lastFairUp |-> G[a][v].lastFairUp, since |-> 0,
              seen |-> [kind |-> "noprice", at |-> t, modelUp |-> 0, marketMid |-> 0,
                        pct |-> 0, basisBefore |-> basis[a][v], latchBefore |-> latch0,
                        window |-> startTimes[a]]]
        ELSE [fair |-> newFair,
              basis |-> newBasis, latch |-> newLatch, lastFairUp |-> fairUp,
              since |-> IF ~leftDiverged THEN 0
                        ELSE IF divergedSince[a][v] = 0 THEN t
                        ELSE divergedSince[a][v],
              seen |-> [kind |-> "calc", at |-> t, modelUp |-> fairUp, marketMid |-> polyUp,
                        pct |-> recentPct, basisBefore |-> basis[a][v],
                        latchBefore |-> latch0, window |-> startTimes[a]]]

\* updatePerExchangeFairs(symbol, now): does nothing without an active window
PerExchangeRuns(a, t) == startTimes[a] > 0 /\ TauMs(a, t) > 0

\* updateHybridFair(symbol, now), given the basis updatePerExchangeFairs left
HybridFair(a, t, G, P, SP, B, newBasis) ==
    LET currentPrice == P[a][anchor]
        startPrice == SP[a][anchor]
        gbmUp == CalculateUp(G[a][anchor].ewmaVariance, currentPrice, startPrice, TauMs(a, t))
        polyUp == B[a]["UP"].mid
        polyDown == B[a]["DOWN"].mid
        clampedUp == Clamp(Add(gbmUp, OrZero(newBasis[a][anchor])))
        up == IF clampedUp = NaN
              THEN (IF polyUp = 0 THEN Neutral ELSE polyUp)
              ELSE clampedUp
    IN  IF \/ LeqZero(currentPrice) \/ LeqZero(startPrice) \/ startTimes[a] <= 0
           \/ TauMs(a, t) <= 0
           \/ polyUp <= 0 \/ polyDown <= 0
        THEN fairProbs[a]
        ELSE [UP |-> up, DOWN |-> ProbScale - up]

\* updateAllFairs(now): the primed FairCalculator state and the models'
\* lastFairUp
UpdateAllFairs(t, G, P, SP, B) ==
    LET E(a, v) == ExchangeFair(a, v, t, G, P, SP, B)
        nb == [a \in Assets |-> [v \in ACTIVE_EXCHANGES |->
                 IF PerExchangeRuns(a, t) THEN E(a, v).basis ELSE basis[a][v]]]
    IN  /\ basis' = nb
        /\ fairByExchange' = [a \in Assets |-> [v \in ACTIVE_EXCHANGES |->
               IF PerExchangeRuns(a, t) THEN E(a, v).fair ELSE fairByExchange[a][v]]]
        /\ latchStart' = [a \in Assets |-> [v \in ACTIVE_EXCHANGES |->
               IF PerExchangeRuns(a, t) THEN E(a, v).latch ELSE latchStart[a][v]]]
        /\ lastRecompute' = [a \in Assets |-> [v \in ACTIVE_EXCHANGES |->
               IF PerExchangeRuns(a, t) THEN E(a, v).seen
               ELSE [lastRecompute[a][v] EXCEPT !.kind = "nowindow", !.at = t]]]
        /\ divergedSince' = [a \in Assets |-> [v \in ACTIVE_EXCHANGES |->
               IF PerExchangeRuns(a, t) THEN E(a, v).since ELSE divergedSince[a][v]]]
        /\ gbm' = [a \in Assets |-> [v \in ACTIVE_EXCHANGES |->
               IF PerExchangeRuns(a, t)
               THEN [G[a][v] EXCEPT !.lastFairUp = E(a, v).lastFairUp]
               ELSE G[a][v]]]
        /\ fairProbs' = [a \in Assets |-> HybridFair(a, t, G, P, SP, B, nb)]
        /\ fairRuns' = << fairRuns[2], t >>
        /\ ranInRollover' = (ranInRollover \/ rolloverPc = "discovering")

\* The venue filter without the test against the anchor.
CombinedValuesWithAnchor(a) ==
    { v \in ACTIVE_EXCHANGES :
        /\ v \notin NonComparable
        /\ fairByExchange[a][v] # Undef /\ fairByExchange[a][v] # NaN
        /\ fairByExchange[a][v] > 0 /\ fairByExchange[a][v] < ProbScale }

\* getCombinedExchangeFair(symbol)
CombinedValues(a) ==
    { v \in ACTIVE_EXCHANGES :
        /\ v # anchor /\ v \notin NonComparable
        /\ fairByExchange[a][v] # Undef /\ fairByExchange[a][v] # NaN
        /\ fairByExchange[a][v] > 0 /\ fairByExchange[a][v] < ProbScale }

RECURSIVE SumFair(_, _)
SumFair(a, S) ==
    IF S = {} THEN 0
    ELSE LET v == CHOOSE x \in S : TRUE IN fairByExchange[a][v] + SumFair(a, S \ {v})

GetCombinedExchangeFair(a) ==
    LET values == CombinedValues(a)
        polyMid == book[a]["UP"].mid
        rawAvg == Quot(SumFair(a, values), Cardinality(values))
    IN  IF values = {} THEN (IF polyMid = 0 THEN Neutral ELSE polyMid)
        ELSE IF polyMid <= 0 THEN rawAvg
        ELSE Max(ClampLo, Min(ClampHi, rawAvg))

----------------------------------------------------------------------------
\* Start-up: AutoTradingBot constructor and start()

\* What the initial discovery found per asset: a window that began 5 minutes
\* ago with its open price, or nothing.
FoundStart == T0 - 300000

\* Clock steps of the trading runs (ms): between firings of the trading
\* interval, and the quiet stretch up to just past the first window's end.
TradeSteps == {5000, 15000}
QuietStretchMs == FoundStart + WindowMs + RolloverGraceMs + ShortStepMs - T0

\* The feeds whose sockets, timers and intervals are followed one by one:
\* PolymarketWs and BinancePerpSource.
ConnFeeds == {"BOOK", "BINANCE"}

SockIds == 1 .. MaxSockets

\* A feed after the one call of connect() by start(): the first socket is
\* being opened and is this.ws, its health interval runs, nothing else is
\* pending.  seen: the kinds of event the feed has had so far.
NewConn ==
    [sock |-> [i \in SockIds |-> IF i = 1 THEN "connecting" ELSE "none"],
     cur |-> 1, made |-> 1, timers |-> 0, watchdogs |-> {1}, seen |-> {}]

\* A socket that has not had its 'close' event.
Live(st) == st \in {"connecting", "open", "closing"}

\* ws.close() or ws.terminate() on a socket: one that is connecting or open
\* is shut down and its 'close' event follows; anything else is left as is.
Shut(st) == IF st \in {"connecting", "open"} THEN "closing" ELSE st

\* A socket on which no subscription has been sent.
NoSubscription == [a \in Assets |-> 0]

NullBook == [bid |-> 0, ask |-> 0, mid |-> 0, token |-> 0]

NewGbm == [history |-> << >>, ewmaVariance |-> 0, lastFairUp |-> Undef]

NeverRecomputed == [kind |-> "never", at |-> 0, modelUp |-> 0, marketMid |-> 0,
                    pct |-> 0, basisBefore |-> Undef, latchBefore |-> Undef,
                    window |-> 0]

\* MarketFinder's fields for an asset: as constructed, and after the initial
\* discovery found the window.
NoWindow == [startTime |-> 0, startPrice |-> 0, token |-> 0]

FoundWindow == [startTime |-> FoundStart, startPrice |-> BasePrice, token |-> 1]

\* BitfinexPerpSource after connect(startTimes): no price and no start price
\* yet, the start times of the windows discovery found.
BitfinexConnected(found) ==
    [price |-> [a \in AssetSymbols |-> 0],
     startPrice |-> [a \in AssetSymbols |-> 0],
     startPrices |-> [a \in AssetSymbols |-> 0],
     startTime |-> [a \in AssetSymbols |->
                      IF a \in Assets /\ a \notin found THEN 0 ELSE FoundStart],
     gbm |-> [a \in AssetSymbols |-> NewGbm]]

NoTeardown == [at |-> 0, lastMessage |-> 0, connectedAt |-> 0]

NoWire == [threw |-> FALSE, applied |-> 0, callbacks |-> 0,
           priceBefore |-> [a \in Assets |-> [v \in ACTIVE_EXCHANGES |-> 0]],
           ticksBefore |-> [a \in Assets |-> [v \in ACTIVE_EXCHANGES |-> 0]]]

\* A model object as constructed, of class cls, before any call.
NewCalc(cls) ==
    [cls |-> cls, g |-> NewGbm, op |-> "none", at |-> 0, calls |-> 0,
     price |-> 0, startPrice |-> 0, tauMs |-> 0, ms |-> 0,
     UP |-> 0, DOWN |-> 0, pct |-> 0, before |-> NewGbm]

\* No order yet for an asset.
NoOrder ==
    [at |-> 0, stamp |-> 0, prevAt |-> 0, enabled |-> FALSE, side |-> "NONE",
     token |-> 0, price |-> 0, edge |-> 0, startPrice |-> 0, currentPrice |-> 0,
     leftMs |-> 0]

\* tradingEnabled = false, lastTradeTime all 0, no trading callback awaits.
NewTrade ==
    [enabled |-> FALSE, lastTradeTime |-> [a \in Assets |-> 0], stamps |-> << >>,
     orders |-> [a \in Assets |-> NoOrder]]

\* The state start() leaves, given which assets discovery found (found) and
\* the configured anchor; every source has just created its socket.  cls is
\* the class of the model object driven on its own.
StartedWith(found, anch, sock, cls) ==
    /\ now = T0
    /\ anchor = anch
    /\ startTimes = [a \in Assets |-> IF a \in found THEN FoundStart ELSE 0]
    /\ startPrices = [a \in Assets |-> IF a \in found THEN BasePrice ELSE 0]
    /\ prices = [a \in Assets |-> 0]
    /\ lastFairUpdate = 0
    /\ srcPrice = [a \in Assets |-> [v \in ACTIVE_EXCHANGES |-> 0]]
    /\ srcStartPrice = [a \in Assets |-> [v \in ACTIVE_EXCHANGES |->
                          IF a \in found /\ v # "BINANCE" THEN BasePrice ELSE 0]]
    /\ binanceStartTime = [a \in Assets |-> IF a \in found THEN FoundStart ELSE 0]
    /\ gbm = [a \in Assets |-> [v \in ACTIVE_EXCHANGES |-> NewGbm]]
    /\ book = [a \in Assets |-> [s \in Sides |-> NullBook]]
    /\ tokenIds = [a \in Assets |-> IF a \in found THEN 1 ELSE 0]
    /\ polyLastMessageTs = 0
    /\ fairProbs = [a \in Assets |-> [UP |-> Neutral, DOWN |-> Neutral]]
    /\ fairByExchange = [a \in Assets |-> [v \in ACTIVE_EXCHANGES |-> Undef]]
    /\ basis = [a \in Assets |-> [v \in ACTIVE_EXCHANGES |-> Undef]]
    /\ latchStart = [a \in Assets |-> [v \in ACTIVE_EXCHANGES |-> Undef]]
    /\ lastRecompute = [a \in Assets |-> [v \in ACTIVE_EXCHANGES |-> NeverRecomputed]]
    /\ divergedSince = [a \in Assets |-> [v \in ACTIVE_EXCHANGES |-> 0]]
    /\ ws = [v \in ACTIVE_EXCHANGES |-> sock]
    /\ reconnectAttempts = [v \in ACTIVE_EXCHANGES |-> 0]
    /\ reconnectTimer = [v \in ACTIVE_EXCHANGES |-> NoTimer]
    /\ timerDelay = [v \in ACTIVE_EXCHANGES |-> 0]
    /\ lastMessageTs = [v \in ACTIVE_EXCHANGES |-> IF v = "BINANCE" THEN T0 ELSE 0]
    /\ healthTimer = [v \in ACTIVE_EXCHANGES |->
                        IF v = "BINANCE" THEN T0 + HealthIntervalMs ELSE NoTimer]
    /\ closesSinceOpen = [v \in ACTIVE_EXCHANGES |-> 0]
    /\ nTicks = 0 /\ nBookMsgs = 0 /\ nAdvances = 0 /\ nFrames = 0
    /\ finder = [a \in Assets |-> IF a \in found THEN FoundWindow ELSE NoWindow]
    /\ rolloverPc = "idle"
    /\ nRollovers = 0
    /\ rolledTo = [a \in Assets |-> 0]
    /\ lastCheck = [at |-> 0, started |-> FALSE]
    /\ rollAwaiting = 0
    /\ quietSinceRollover = FALSE
    /\ polyWs = sock
    /\ polyAttempts = 0
    /\ polyReconnectTimer = NoTimer
    /\ polyHealthTimer = T0 + BookHealthIntervalMs
    /\ polyConnectedAt = T0
    /\ polyTeardown = NoTeardown
    /\ conn = [f \in ConnFeeds |-> NewConn]
    /\ polySub = IF sock = "open" THEN [a \in Assets |-> IF a \in found THEN 1 ELSE 0]
                 ELSE NoSubscription
    /\ lastWire = NoWire
    /\ fairRuns = << 0, 0 >>
    /\ ranInRollover = FALSE
    /\ bitfinex = BitfinexConnected(found)
    /\ calc = NewCalc(cls)
    /\ trade = NewTrade

Started(found, anch, sock) == StartedWith(found, anch, sock, "plain")

Init == Started(Assets, DefaultAnchor, "connecting")

\* The state once discovery has found every asset's window and every socket
\* has opened, before any message.
InitLive ==
    \E anch \in AnchorChoices : Started(Assets, anch, "open")

\* The same under the default anchor.
InitBasis == Started(Assets, DefaultAnchor, "open")

\* The state once every socket has opened, whichever assets the initial
\* discovery found a window for.
InitSched == \E found \in SUBSET Assets : Started(found, DefaultAnchor, "open")

----------------------------------------------------------------------------
\* AutoTradingBot.onUpdate(), called by every source after a price and by
\* the order-book feed after a message, and by the heartbeat interval.

\* The throttle test with half the interval.
FairDueEarly(t, last) == 2 * (t - last) >= FairThrottleMs

\* now - this.lastFairUpdate >= 50
FairDue(t, last) == t - last >= FairThrottleMs

OnUpdate(G, P, SP, B) ==
    /\ prices' = [a \in Assets |->
                    IF GtZero(P[a][anchor]) THEN P[a][anchor] ELSE startPrices[a]]
    /\ IF FairDue(now, lastFairUpdate)
       THEN /\ lastFairUpdate' = now
            /\ IF startTimes["BTC"] > 0
               THEN UpdateAllFairs(now, G, P, SP, B)
               ELSE gbm' = G /\ UNCHANGED fairVars
       ELSE /\ gbm' = G
            /\ UNCHANGED << lastFairUpdate, fairVars >>

Heartbeat ==
    /\ OnUpdate(gbm, srcPrice, srcStartPrice, book)
    /\ UNCHANGED << now, anchor, startTimes, startPrices, srcPrice, srcStartPrice,
                    binanceStartTime, polyVars, connVars, lastMessageTs, budgetVars,
                    otherVars, quietSinceRollover >>

\* The price test of a venue's message handler: Binance drops a price that is
\* falsy or <= 0, the others only one that is <= 0.
AcceptsPrice(v, p) ==
    IF v = "BINANCE" THEN p # NaN /\ p # 0 /\ ~LeqZero(p) ELSE ~LeqZero(p)

\* A trade message for asset a with price field p arrives on venue v's socket.
Tick(a, v, p) ==
    /\ ws[v] = "open"
    /\ nTicks' = nTicks + 1
    /\ lastMessageTs' = [lastMessageTs EXCEPT ![v] = now]
    /\ IF AcceptsPrice(v, p)
       THEN LET P == [srcPrice EXCEPT ![a][v] = p]
                G == [gbm EXCEPT ![a][v] = AddPrice(@, p, now)]
                SP == IF v = "BINANCE" /\ srcStartPrice[a][v] = 0 /\ binanceStartTime[a] > 0
                      THEN [srcStartPrice EXCEPT ![a][v] = p]
                      ELSE srcStartPrice
            IN  /\ srcPrice' = P
                /\ srcStartPrice' = SP
                /\ OnUpdate(G, P, SP, book)
       ELSE UNCHANGED << srcPrice, srcStartPrice, gbm, prices, lastFairUpdate, fairVars >>
    /\ quietSinceRollover' = FALSE
    /\ UNCHANGED << now, anchor, startTimes, startPrices, binanceStartTime, polyVars,
                    connVars, nBookMsgs, nAdvances, nFrames, otherVars >>

\* processMessage for one price change: asset a, side s, token of window id,
\* best bid and ask q; then onUpdate().
BookMessage(a, s, id, q) ==
    /\ nBookMsgs' = nBookMsgs + 1
    /\ polyLastMessageTs' = now
    /\ LET bid == q[1]
           ask == q[2]
           mid == IF bid > 0 /\ ask > 0 THEN Quot(bid + ask, 2) ELSE 0
           B == IF id # 0 /\ mid > 0 /\ tokenIds[a] = id
                THEN [book EXCEPT ![a][s] = [bid |-> bid, ask |-> ask, mid |-> mid,
                                               token |-> id]]
                ELSE book
       IN  /\ book' = B
           /\ OnUpdate(gbm, srcPrice, srcStartPrice, B)
    /\ quietSinceRollover' = FALSE
    /\ UNCHANGED << now, anchor, startTimes, startPrices, srcPrice, srcStartPrice,
                    binanceStartTime, tokenIds, connVars, lastMessageTs, nTicks,
                    nAdvances, nFrames, otherVars >>

\* The entries of a trade message that the handler's loop reaches: those
\* before the first entry whose handling throws.
RECURSIVE Reached(_)
Reached(m) ==
    IF m = << >> \/ Head(m)[1] = "bad" THEN << >>
    ELSE << Head(m) >> \o Reached(Tail(m))

Throws(m) == \E i \in 1..Len(m) : m[i][1] = "bad"

\* The reached entries whose price passes the handler's test.
RECURSIVE Stored(_, _)
Stored(v, r) ==
    IF r = << >> THEN << >>
    ELSE IF AcceptsPrice(v, Head(r)[3]) THEN << Head(r) >> \o Stored(v, Tail(r))
    ELSE Stored(v, Tail(r))

\* A trade message with the entries m arrives on the socket of venue v (the
\* handler of Bybit, OKX and Gate: the loop over the trades sits inside one
\* try block, and each stored trade calls onPriceUpdate).  Written for
\* messages of which at most one trade is stored.
TradesMessage(v, m) ==
    /\ ws[v] = "open"
    /\ Len(Stored(v, Reached(m))) <= 1
    /\ nTicks' = nTicks + 1
    /\ lastMessageTs' = [lastMessageTs EXCEPT ![v] = now]
    /\ lastWire' = [threw |-> Throws(m),
                    applied |-> Len(Stored(v, Reached(m))),
                    callbacks |-> Len(Stored(v, Reached(m))),
                    priceBefore |-> srcPrice,
                    ticksBefore |-> [a \in Assets |-> [x \in ACTIVE_EXCHANGES |->
                                       Len(gbm[a][x].history)]]]
    /\ IF Stored(v, Reached(m)) # << >>
       THEN LET e == Head(Stored(v, Reached(m)))
                P == [srcPrice EXCEPT ![e[2]][v] = e[3]]
                G == [gbm EXCEPT ![e[2]][v] = AddPrice(@, e[3], now)]
            IN  /\ srcPrice' = P
                /\ OnUpdate(G, P, srcStartPrice, book)
       ELSE UNCHANGED << srcPrice, gbm, prices, lastFairUpdate, fairVars >>
    /\ quietSinceRollover' = FALSE
    /\ UNCHANGED << now, anchor, startTimes, startPrices, srcStartPrice,
                    binanceStartTime, polyVars, connVars, nBookMsgs, nAdvances,
                    nFrames, rollVars, bookConnVars, bitfinex, calc,
                    trade >>

\* BitfinexPerpSource.handlePrice(symbol, price) at time t, before the
\* callback: the source's fields after the switch.
HandlePrice(bf, a, price, t) ==
    LET first == bf.startPrice[a] = 0 /\ bf.startTime[a] > 0
    IN  [bf EXCEPT
           !.price[a] = price,
           !.gbm[a] = AddPrice(@, price, t),
           !.startPrice[a] = IF first THEN price ELSE @,
           !.startPrices = IF ~first \/ a = "XRP" THEN @
                           ELSE IF a = "SOL" THEN [@ EXCEPT !["SOL"] = price, !["XRP"] = price]
                           ELSE [@ EXCEPT ![a] = price]]

\* A trade message on the Bitfinex channel of asset a with price field p:
\* price = Math.abs(p), dropped if falsy or <= 0, else handlePrice and the
\* callback.
BitfinexTick(a, p) ==
    /\ nTicks' = nTicks + 1
    /\ IF IsNum(p) /\ Abs(p) > 0
       THEN /\ bitfinex' = HandlePrice(bitfinex, a, Abs(p), now)
            /\ OnUpdate(gbm, srcPrice, srcStartPrice, book)
       ELSE UNCHANGED << bitfinex, gbm, prices, lastFairUpdate, fairVars >>
    /\ quietSinceRollover' = FALSE
    /\ UNCHANGED << now, anchor, startTimes, startPrices, srcPrice, srcStartPrice,
                    binanceStartTime, polyVars, connVars, lastMessageTs, nBookMsgs,
                    nAdvances, nFrames, rollVars, bookConnVars, lastWire, calc,
                    trade >>

\* What the calls on the model object leave alone.
CalcFrame ==
    UNCHANGED << now, anchor, botVars, srcVars, polyVars, fairVars, connVars,
                 lastMessageTs, budgetVars, rollVars, bookConnVars, lastWire,
                 bitfinex, quietSinceRollover,
                    trade >>

\* addPrice(p) on the model object.
CalcAddPrice(p) ==
    /\ calc' = [NewCalc(calc.cls) EXCEPT
                  !.g = IF calc.cls = "plain" THEN AddPrice(calc.g, p, now)
                        ELSE AddPriceLong(calc.g, p, now),
                  !.op = "addPrice", !.at = now, !.calls = calc.calls + 1,
                  !.price = p, !.before = calc.g]
    /\ CalcFrame

\* calculate(currentPrice, startPrice, tauMs / 60000) on the model object.
CalcCalculate(currentPrice, startPrice, tauMs) ==
    LET r == IF calc.cls = "plain"
             THEN Calculate(calc.g, currentPrice, startPrice, tauMs)
             ELSE CalculateSmooth(calc.g, currentPrice, startPrice, tauMs)
    IN  /\ calc' = [NewCalc(calc.cls) EXCEPT
                      !.g = r.g,
                      !.op = "calculate", !.at = now, !.calls = calc.calls + 1,
                      !.price = currentPrice, !.startPrice = startPrice,
                      !.tauMs = tauMs, !.UP = r.UP, !.DOWN = r.DOWN,
                      !.before = calc.g]
        /\ CalcFrame

\* getRecentPctChange(ms) on the model object.
CalcRecentPct(ms) ==
    /\ calc' = [NewCalc(calc.cls) EXCEPT
                  !.g = calc.g,
                  !.op = "recentPct", !.at = now, !.calls = calc.calls + 1,
                  !.ms = ms, !.pct = GetRecentPctChange(calc.g.history, ms),
                  !.before = calc.g]
    /\ CalcFrame

\* Time passes.
Advance(dt) ==
    /\ nAdvances' = nAdvances + 1
    /\ now' = now + dt
    /\ UNCHANGED << anchor, botVars, srcVars, polyVars, fairVars, connVars,
                    lastMessageTs, nTicks, nBookMsgs, nFrames, otherVars,
                    quietSinceRollover >>

----------------------------------------------------------------------------
\* The sockets of the price sources: connect() of each source.

\* Math.min(1000 * ++reconnectAttempts, 10000), k the incremented count
BackoffDelay(k) == Min(BackoffStepMs * k, BackoffCapMs)

\* An 'open' handler that leaves the attempt counter alone.
AttemptsKept(k) == k

\* reconnectAttempts = 0 in the 'open' handler
AttemptsAfterOpen(k) == 0

\* The sources whose connect() arms a health watchdog.
HasWatchdog(v) == v = "BINANCE"

\* age > 5000 in the watchdog
IsStale(age) == age > StaleAfterMs

\* The socket's 'open' event.
Open(v) ==
    /\ ws[v] = "connecting"
    /\ ws' = [ws EXCEPT ![v] = "open"]
    /\ reconnectAttempts' = [reconnectAttempts EXCEPT ![v] = AttemptsAfterOpen(@)]
    /\ closesSinceOpen' = [closesSinceOpen EXCEPT ![v] = 0]
    /\ UNCHANGED << now, anchor, botVars, srcVars, polyVars, fairVars, reconnectTimer,
                    timerDelay, healthTimer, lastMessageTs, budgetVars,
                    otherVars, conn,
                    quietSinceRollover >>

\* A 'close' handler that schedules no connect().
CloseNoRetry(v) ==
    /\ ws[v] \in {"connecting", "open", "closing"}
    /\ ws' = [ws EXCEPT ![v] = "closed"]
    /\ UNCHANGED << now, anchor, botVars, srcVars, polyVars, fairVars,
                    reconnectAttempts, reconnectTimer, timerDelay, closesSinceOpen,
                    healthTimer, lastMessageTs, budgetVars, otherVars,
                    conn,
                    quietSinceRollover >>

\* The socket's 'close' event (the connection was lost, refused or
\* terminated; the 'error' handler only calls close()): schedule connect().
Close(v) ==
    /\ ws[v] \in {"connecting", "open", "closing"}
    /\ reconnectAttempts[v] < MaxAttempts
    /\ ws' = [ws EXCEPT ![v] = "closed"]
    /\ reconnectAttempts' = [reconnectAttempts EXCEPT ![v] = @ + 1]
    /\ closesSinceOpen' = [closesSinceOpen EXCEPT ![v] = @ + 1]
    /\ timerDelay' = [timerDelay EXCEPT ![v] = BackoffDelay(reconnectAttempts[v] + 1)]
    /\ reconnectTimer' = [reconnectTimer EXCEPT
                            ![v] = now + BackoffDelay(reconnectAttempts[v] + 1)]
    /\ UNCHANGED << now, anchor, botVars, srcVars, polyVars, fairVars, healthTimer,
                    lastMessageTs, budgetVars, otherVars, conn,
                    quietSinceRollover >>

\* The reconnect timer fires: connect() creates a new socket, and a source
\* with a watchdog stamps lastMessageTs and re-arms its interval.
Connect(v) ==
    /\ reconnectTimer[v] = now
    /\ ws' = [ws EXCEPT ![v] = "connecting"]
    /\ reconnectTimer' = [reconnectTimer EXCEPT ![v] = NoTimer]
    /\ lastMessageTs' = IF HasWatchdog(v) THEN [lastMessageTs EXCEPT ![v] = now]
                        ELSE lastMessageTs
    /\ healthTimer' = IF HasWatchdog(v)
                      THEN [healthTimer EXCEPT ![v] = now + HealthIntervalMs]
                      ELSE healthTimer
    /\ UNCHANGED << now, anchor, botVars, srcVars, polyVars, fairVars,
                    reconnectAttempts, timerDelay, closesSinceOpen, budgetVars,
                    otherVars, conn,
                    quietSinceRollover >>

\* The health interval fires: terminate() the socket if the last message is
\* too old; the socket's 'close' event follows.
Watchdog(v) ==
    /\ healthTimer[v] = now
    /\ healthTimer' = [healthTimer EXCEPT ![v] = now + HealthIntervalMs]
    /\ ws' = IF IsStale(now - lastMessageTs[v]) /\ ws[v] \in {"connecting", "open"}
             THEN [ws EXCEPT ![v] = "closing"]
             ELSE ws
    /\ UNCHANGED << now, anchor, botVars, srcVars, polyVars, fairVars,
                    reconnectAttempts, reconnectTimer, timerDelay, closesSinceOpen,
                    lastMessageTs, budgetVars, otherVars, conn,
                    quietSinceRollover >>

\* A message that carries no trade (a subscription reply, a pong): the
\* handler stamps lastMessageTs and returns.
Frame(v) ==
    /\ ws[v] = "open"
    /\ nFrames' = nFrames + 1
    /\ lastMessageTs' = [lastMessageTs EXCEPT ![v] = now]
    /\ UNCHANGED << now, anchor, botVars, srcVars, polyVars, fairVars, connVars,
                    nTicks, nBookMsgs, nAdvances, otherVars, quietSinceRollover >>

\* No timer is due before now + dt, and no terminated socket still waits for
\* its close event.
TimersAllow(dt) ==
    \A v \in ACTIVE_EXCHANGES :
        /\ reconnectTimer[v] = NoTimer \/ reconnectTimer[v] >= now + dt
        /\ healthTimer[v] = NoTimer \/ healthTimer[v] >= now + dt
        /\ ws[v] # "closing"

\* One clock step of the feed runs.
FeedClock ==
    /\ TimersAllow(FeedStepMs)
    /\ now + FeedStepMs <= T0 + MaxFeedSeconds * 1000
    /\ now' = now + FeedStepMs
    /\ UNCHANGED << anchor, botVars, srcVars, polyVars, fairVars, connVars,
                    lastMessageTs, budgetVars, otherVars, quietSinceRollover >>

----------------------------------------------------------------------------
\* connect() of PolymarketWs and of BinancePerpSource, socket by socket: the
\* handlers act on this.ws, whichever socket raised the event.

\* What the calls on the sockets of the feeds leave alone.
ConnFrame ==
    UNCHANGED << now, anchor, botVars, srcVars, polyVars, fairVars, ws,
                 reconnectAttempts, reconnectTimer, timerDelay, healthTimer,
                 closesSinceOpen, lastMessageTs, budgetVars, otherVars,
                 quietSinceRollover >>

\* A 'close' or 'error' handler that clears no interval.
IntervalsKept(f, W, i) == W

\* clearInterval(healthInterval) in the 'close' and 'error' handlers of
\* PolymarketWs, for the interval made with socket i; BinancePerpSource
\* clears its interval in connect() only.
IntervalsCleared(f, W, i) == IF f = "BOOK" THEN W \ {i} ELSE W

\* The 'open' event of socket i.
ConnOpen(f, i) ==
    /\ conn[f].sock[i] = "connecting"
    /\ conn' = [conn EXCEPT ![f].sock[i] = "open"]
    /\ ConnFrame

\* The 'close' event of socket i, once per socket: clear the intervals
\* (PolymarketWs), setTimeout(connect, ...).
ConnClose(f, i) ==
    /\ Live(conn[f].sock[i])
    /\ conn' = [conn EXCEPT
                  ![f].sock[i] = "closed",
                  ![f].watchdogs = IntervalsCleared(f, @, i),
                  ![f].timers = @ + 1,
                  ![f].seen = @ \cup {"close"}]
    /\ ConnFrame

\* An 'error' event of socket i, whose 'close' event follows: clear the
\* intervals (PolymarketWs), this.ws.close().
ConnError(f, i) ==
    /\ Live(conn[f].sock[i])
    /\ conn' = [conn EXCEPT
                  ![f].sock = [[@ EXCEPT ![i] = "closing"]
                                 EXCEPT ![conn[f].cur] = Shut(@)],
                  ![f].watchdogs = IntervalsCleared(f, @, i),
                  ![f].seen = @ \cup {"error"}]
    /\ ConnFrame

\* The health interval made with socket i fires and finds the last message
\* too old: this.ws.terminate().
ConnWatchdog(f, i) ==
    /\ i \in conn[f].watchdogs
    /\ conn' = [conn EXCEPT
                  ![f].sock[conn[f].cur] = Shut(@),
                  ![f].seen = @ \cup {"watchdog"}]
    /\ ConnFrame

\* PolymarketWs.reconnect(): this.ws.close().
ConnReconnect(f) ==
    /\ f = "BOOK"
    /\ conn' = [conn EXCEPT
                  ![f].sock[conn[f].cur] = Shut(@),
                  ![f].seen = @ \cup {"reconnect"}]
    /\ ConnFrame

\* A pending setTimeout(connect, ...) fires: connect() shuts this.ws, makes
\* a new socket and its health interval (BinancePerpSource clears the one
\* it holds first).
ConnTimer(f) ==
    /\ conn[f].timers > 0
    /\ conn[f].made < MaxSockets
    /\ LET n == conn[f].made + 1
       IN  conn' = [conn EXCEPT
                      ![f].timers = @ - 1,
                      ![f].sock = [[@ EXCEPT ![conn[f].cur] = Shut(@)]
                                     EXCEPT ![n] = "connecting"],
                      ![f].cur = n,
                      ![f].made = n,
                      ![f].watchdogs = IF f = "BOOK" THEN @ \cup {n} ELSE {n}]
    /\ ConnFrame

----------------------------------------------------------------------------
\* The order-book socket: connect() of PolymarketWs.

\* A delay that grows without a cap.
PolyBackoffUncapped(k) == BackoffStepMs * k

\* Math.min(1000 * ++reconnectAttempts, 8000), k the incremented count
PolyBackoffDelay(k) == Min(BackoffStepMs * k, BookBackoffCapMs)

\* age > 15000 in the order-book watchdog
BookIsStale(age) == age > BookStaleAfterMs

\* A send of the token ids that leaves the socket's subscription as it was.
SubscriptionKept(ids, sub) == sub

\* allIds, if not empty, go out as one subscription message.
Subscription(ids, sub) == IF \E a \in Assets : ids[a] # 0 THEN ids ELSE sub

\* The socket's 'open' event: reset the attempts, subscribe to all token ids.
PolyOpen ==
    /\ polyWs = "connecting"
    /\ polyWs' = "open"
    /\ polyAttempts' = 0
    /\ polySub' = Subscription(tokenIds, polySub)
    /\ UNCHANGED << now, anchor, botVars, srcVars, polyVars, fairVars, connVars,
                    lastMessageTs, budgetVars, rollVars, polyReconnectTimer,
                    polyHealthTimer, polyConnectedAt, polyTeardown, lastWire,
                    bitfinex, calc, quietSinceRollover,
                    trade >>

\* The socket's 'close' event (the 'error' handler clears the same intervals
\* and calls close()): clear the intervals, schedule connect().
PolyClose ==
    /\ polyWs \in {"connecting", "open", "closing"}
    /\ polyAttempts < MaxAttempts
    /\ polyWs' = "closed"
    /\ polyHealthTimer' = NoTimer
    /\ polyAttempts' = polyAttempts + 1
    /\ polyReconnectTimer' = now + PolyBackoffDelay(polyAttempts + 1)
    /\ UNCHANGED << now, anchor, botVars, srcVars, polyVars, fairVars, connVars,
                    lastMessageTs, budgetVars, rollVars, polyConnectedAt,
                    polyTeardown, polySub, lastWire, bitfinex, calc,
                    quietSinceRollover,
                    trade >>

\* The reconnect timer fires: connect() creates a new socket and arms the
\* health interval; lastMessageTs is left as it is.
PolyConnect ==
    /\ polyReconnectTimer = now
    /\ polyWs' = "connecting"
    /\ polyReconnectTimer' = NoTimer
    /\ polyHealthTimer' = now + BookHealthIntervalMs
    /\ polyConnectedAt' = now
    /\ polySub' = NoSubscription
    /\ UNCHANGED << now, anchor, botVars, srcVars, polyVars, fairVars, connVars,
                    lastMessageTs, budgetVars, rollVars, polyAttempts,
                    polyTeardown, lastWire, bitfinex, calc,
                    quietSinceRollover,
                    trade >>

\* The health interval fires: terminate() the socket if lastMessageTs is too
\* old; the socket's 'close' event follows.
PolyWatchdog ==
    /\ polyHealthTimer = now
    /\ polyHealthTimer' = now + BookHealthIntervalMs
    /\ IF BookIsStale(now - polyLastMessageTs)
       THEN /\ polyWs' = IF polyWs \in {"connecting", "open"} THEN "closing" ELSE polyWs
            /\ polyTeardown' = [at |-> now, lastMessage |-> polyLastMessageTs,
                                connectedAt |-> polyConnectedAt]
       ELSE UNCHANGED << polyWs, polyTeardown >>
    /\ UNCHANGED << now, anchor, botVars, srcVars, polyVars, fairVars, connVars,
                    lastMessageTs, budgetVars, rollVars, polyAttempts,
                    polyReconnectTimer, polyConnectedAt, polySub, lastWire,
                    bitfinex, calc, quietSinceRollover,
                    trade >>

\* A PONG arrives: the handler stamps lastMessageTs and returns.
PolyFrame ==
    /\ polyWs = "open"
    /\ nFrames' = nFrames + 1
    /\ polyLastMessageTs' = now
    /\ UNCHANGED << now, anchor, botVars, srcVars, book, tokenIds, fairVars,
                    connVars, lastMessageTs, nTicks, nBookMsgs, nAdvances,
                    otherVars, quietSinceRollover >>

\* One clock step of the order-book feed runs: no timer of the socket is due
\* before it, and no terminated socket still waits for its close event.
BookClock ==
    /\ polyReconnectTimer = NoTimer \/ polyReconnectTimer >= now + FeedStepMs
    /\ polyHealthTimer = NoTimer \/ polyHealthTimer >= now + FeedStepMs
    /\ polyWs # "closing"
    /\ now + FeedStepMs <= T0 + MaxBookSeconds * 1000
    /\ now' = now + FeedStepMs
    /\ UNCHANGED << anchor, botVars, srcVars, polyVars, fairVars, connVars,
                    lastMessageTs, budgetVars, otherVars, quietSinceRollover >>

----------------------------------------------------------------------------
\* TradingLogic.checkForTrade(symbol, now), called by the trading interval
\* for every asset after checkMarketRollover() has returned, with the value
\* of Date.now() the callback read before it awaited the rollover (stamp).

\* now - this.lastTradeTime[symbol] < config.TRADE_COOLDOWN
InCooldown(stamp, last) == stamp - last < TradeCooldownMs

\* side: UP above the start price, DOWN below it, none at it
SideOf(currentPrice, startPrice) ==
    IF ~IsNum(currentPrice) \/ ~IsNum(startPrice) THEN "NONE"
    ELSE IF currentPrice > startPrice THEN "UP"
    ELSE IF currentPrice < startPrice THEN "DOWN"
    ELSE "NONE"

\* edge <= config.PRICE_DIFFERENCE_THRESHOLD
EdgeTooSmall(fair, mid) == IsNum(fair) /\ fair - mid <= PriceDifferenceThreshold

\* The order checkForTrade initiates for asset a, or NoOrder if it returns
\* before executeTrade: T the trading state, ST, SP, PR the bot's start
\* times, start prices and current prices, FP the fair probabilities, B the
\* book, F the market finder's fields.
OrderFor(T, a, stamp, ST, SP, PR, FP, B, F) ==
    LET side == SideOf(PR[a], SP[a])
        leftMs == Max(0, ST[a] + WindowMs - stamp)
    IN  IF ~T.enabled THEN NoOrder
        ELSE IF InCooldown(stamp, T.lastTradeTime[a]) THEN NoOrder
        ELSE IF LeqZero(SP[a]) \/ LeqZero(PR[a]) THEN NoOrder
        ELSE IF leftMs <= 0 THEN NoOrder
        ELSE IF side = "NONE" THEN NoOrder
        ELSE IF EdgeTooSmall(FP[a][side], B[a][side].mid) THEN NoOrder
        ELSE IF F[a].token = 0 THEN NoOrder
        ELSE IF B[a][side].mid <= 0 THEN NoOrder
        ELSE [at |-> now, stamp |-> stamp, prevAt |-> T.orders[a].at,
              enabled |-> T.enabled, side |-> side, token |-> F[a].token,
              price |-> B[a][side].mid, edge |-> FP[a][side] - B[a][side].mid,
              startPrice |-> SP[a], currentPrice |-> PR[a], leftMs |-> leftMs]

\* The trading state after checkForTrade has run for every asset:
\* executeTrade for the orders initiated, lastTradeTime[symbol] = now.
TradesChecked(T, stamp, ST, SP, PR, FP, B, F) ==
    [T EXCEPT
       !.lastTradeTime = [a \in Assets |->
           IF OrderFor(T, a, stamp, ST, SP, PR, FP, B, F) # NoOrder THEN stamp
           ELSE T.lastTradeTime[a]],
       !.orders = [a \in Assets |->
           IF OrderFor(T, a, stamp, ST, SP, PR, FP, B, F) # NoOrder
           THEN OrderFor(T, a, stamp, ST, SP, PR, FP, B, F)
           ELSE T.orders[a]]]

\* The sequence q without its i-th element.
Without(q, i) == [j \in 1..(Len(q) - 1) |-> IF j < i THEN q[j] ELSE q[j + 1]]

\* The console line 'trade on' or 'trade off'.
TradeSwitch(on) ==
    /\ trade' = [trade EXCEPT !.enabled = on]
    /\ UNCHANGED << now, anchor, botVars, srcVars, polyVars, fairVars, connVars,
                    lastMessageTs, budgetVars, rollVars, bookConnVars, lastWire,
                    bitfinex, calc, quietSinceRollover >>

----------------------------------------------------------------------------
\* AutoTradingBot.checkMarketRollover(), run by the trading interval.  It
\* awaits findMarkets() once it has seen an expired window; what follows the
\* await runs in one piece.  The interval does not wait for a call to
\* return, so a call may start while earlier ones still await.

\* The expiry test without the grace period.
IsExpiredNoGrace(a) == startTimes[a] > 0 /\ now > startTimes[a] + WindowMs

\* isExpired(symbol)
IsExpired(a) == startTimes[a] > 0 /\ now > startTimes[a] + WindowMs + RolloverGraceMs

\* What findMarket stores when it finds the window that follows the first:
\* its open time, the open price fetched for it, its token ids.
FoundNext == [startTime |-> FoundStart + WindowMs, startPrice |-> NextWindowPrice,
              token |-> 2]

\* MarketFinder after findMarkets(), res[a] the outcome of findMarket for a:
\* a failed search leaves the asset's fields as they were; a search that
\* finds the window stores its token ids and open time, then the open price
\* if the fetch of it succeeds (else the start price field stays as it was).
Discovered(res) ==
    [a \in Assets |->
        IF res[a] = "found" THEN FoundNext
        ELSE IF res[a] = "noprice"
        THEN [FoundNext EXCEPT !.startPrice = finder[a].startPrice]
        ELSE finder[a]]

\* newStartPrice of step 2: the finder's price, or the anchor's current price
\* under an anchor other than Binance.
NewStartPrice(F, a) ==
    IF anchor # "BINANCE" /\ GtZero(srcPrice[a][anchor]) THEN srcPrice[a][anchor]
    ELSE F[a].startPrice

\* newStartTime > 0 && newStartPrice > 0
ValidWindow(F, a) == F[a].startTime > 0 /\ GtZero(NewStartPrice(F, a))

\* Token ids that step 3 leaves as they are.
StaleTokenIds(F) == tokenIds

\* Step 3: updateTokenIds(symbol, up, down) with the finder's ids, for every
\* symbol.
NewTokenIds(F) == [a \in Assets |-> F[a].token]

\* The interval fires and reads the time; some window has expired: log,
\* call findMarkets().
RolloverBegin ==
    /\ \E a \in Assets : IsExpired(a)
    /\ rolloverPc' = "discovering"
    /\ rollAwaiting' = rollAwaiting + 1
    /\ lastCheck' = [at |-> now, started |-> TRUE]
    /\ trade' = [trade EXCEPT !.stamps = Append(@, now)]
    /\ UNCHANGED << now, anchor, botVars, srcVars, polyVars, fairVars, connVars,
                    lastMessageTs, budgetVars, finder, nRollovers, rolledTo,
                    bookConnVars, lastWire, bitfinex, calc,
                    quietSinceRollover >>

\* The interval fires and reads the time; no window has expired: the
\* rollover check returns, checkForTrade runs for every asset.
RolloverSkip ==
    /\ ~ \E a \in Assets : IsExpired(a)
    /\ lastCheck' = [at |-> now, started |-> FALSE]
    /\ trade' = TradesChecked(trade, now, startTimes, startPrices, prices,
                              fairProbs, book, finder)
    /\ UNCHANGED << now, anchor, botVars, srcVars, polyVars, fairVars, connVars,
                    lastMessageTs, budgetVars, finder, rolloverPc, nRollovers,
                    rolledTo, rollAwaiting, bookConnVars, lastWire, bitfinex, calc,
                    quietSinceRollover >>

\* findMarkets() resolves with the outcomes res; steps 2 to 5 follow: start
\* times and prices of the assets with a valid window, token ids of all,
\* reconnect() of the order-book socket, fairProbs of all to 0.5; then the
\* callback that awaited runs checkForTrade for every asset with the time
\* it read when it fired.
RolloverFinish(res) ==
    LET F == Discovered(res) IN
    /\ rollAwaiting > 0
    /\ rollAwaiting' = rollAwaiting - 1
    /\ rolloverPc' = IF rollAwaiting = 1 THEN "idle" ELSE "discovering"
    /\ finder' = F
    /\ startTimes' = [a \in Assets |->
                        IF ValidWindow(F, a) THEN F[a].startTime ELSE startTimes[a]]
    /\ startPrices' = [a \in Assets |->
                         IF ValidWindow(F, a) THEN NewStartPrice(F, a) ELSE startPrices[a]]
    /\ srcStartPrice' = [a \in Assets |-> [v \in ACTIVE_EXCHANGES |->
                            IF ValidWindow(F, a) /\ v # "BINANCE"
                            THEN NewStartPrice(F, a) ELSE srcStartPrice[a][v]]]
    /\ tokenIds' = NewTokenIds(F)
    /\ polySub' = IF polyWs = "open" THEN Subscription(NewTokenIds(F), polySub)
                  ELSE polySub
    /\ polyWs' = IF polyWs \in {"connecting", "open"} THEN "closing" ELSE polyWs
    /\ fairProbs' = [a \in Assets |-> [UP |-> Neutral, DOWN |-> Neutral]]
    /\ nRollovers' = nRollovers + 1
    /\ rolledTo' = [a \in Assets |-> IF res[a] # "failed" THEN F[a].startTime ELSE 0]
    /\ quietSinceRollover' = TRUE
    /\ \E i \in 1..Len(trade.stamps) :
          trade' = TradesChecked([trade EXCEPT !.stamps = Without(@, i)],
                                 trade.stamps[i], startTimes', startPrices', prices,
                                 fairProbs', book, F)
    /\ UNCHANGED << now, anchor, prices, lastFairUpdate, srcPrice, binanceStartTime,
                    gbm, book, polyLastMessageTs, fairByExchange, basis, latchStart,
                    lastRecompute, divergedSince, fairRuns, ranInRollover, connVars,
                    lastMessageTs, budgetVars, polyAttempts, polyReconnectTimer,
                    polyHealthTimer, polyConnectedAt, polyTeardown, lastWire,
                    bitfinex, calc, lastCheck >>

----------------------------------------------------------------------------
\* Specifications

\* The feeds from start-up: sockets open, close and reconnect, the watchdog
\* runs, messages without a trade arrive, timers fire when due.
Next ==
    \/ \E v \in FeedVenues : Open(v)
    \/ \E v \in FeedVenues : (v \in FlakyVenues \/ ws[v] = "closing") /\ Close(v)
    \/ \E v \in FeedVenues : Connect(v)
    \/ \E v \in FeedVenues : HasWatchdog(v) /\ Watchdog(v)
    \/ \E v \in FeedVenues : nFrames < MaxFrames /\ Frame(v)
    \/ FeedClock

Spec == Init /\ [][Next]_vars

\* The fair engine over live feeds: trades and book messages arrive in any
\* order, the heartbeat fires, time passes.
NextFair ==
    \/ \E a \in LiveAssets, m \in LiveTicks :
          nTicks < MaxTicks /\ Tick(a, m[1], m[2])
    \/ \E a \in LiveAssets, m \in LiveQuotes :
          nBookMsgs < MaxBookMsgs /\ BookMessage(a, m[1], 1, m[2])
    \/ Heartbeat
    \/ nAdvances < MaxAdvances /\ Advance(SpikeWindowMs)

SpecFair == InitLive /\ [][NextFair]_vars

\* The basis calibration of one venue: its trades and the UP quotes arrive,
\* and the clock moves on once the logic interval or a message has run
\* onUpdate() at the current instant.
NextBasis ==
    \/ \E a \in LiveAssets, p \in BasisPrices :
          nTicks < MaxTicks /\ Tick(a, BasisVenue, p)
    \/ \E a \in LiveAssets, q \in BasisQuotes :
          nBookMsgs < MaxBookMsgs /\ BookMessage(a, "UP", 1, q)
    \/ Heartbeat
    \/ \E dt \in TimeSteps :
          nAdvances < MaxBasisAdvances /\ lastFairUpdate = now /\ Advance(dt)

SpecBasis == InitBasis /\ [][NextBasis]_vars

\* The order-book feed from start-up: the socket opens, is dropped by the
\* network at any moment, reconnects; PONGs arrive; the watchdog runs.
NextBook ==
    \/ PolyOpen
    \/ PolyClose
    \/ PolyConnect
    \/ PolyWatchdog
    \/ nFrames < MaxBookFrames /\ PolyFrame
    \/ BookClock

SpecBook == Init /\ [][NextBook]_vars

\* One clock step of the order-book feed over the longer run.
BookRetryClock ==
    /\ polyReconnectTimer = NoTimer \/ polyReconnectTimer >= now + FeedStepMs
    /\ polyHealthTimer = NoTimer \/ polyHealthTimer >= now + FeedStepMs
    /\ polyWs # "closing"
    /\ now + FeedStepMs <= T0 + MaxBookRetrySeconds * 1000
    /\ now' = now + FeedStepMs
    /\ UNCHANGED << anchor, botVars, srcVars, polyVars, fairVars, connVars,
                    lastMessageTs, budgetVars, otherVars, quietSinceRollover >>

\* The order-book feed without any message, long enough for the backoff to
\* reach its cap: the socket opens or fails, is dropped or terminated, and
\* reconnects.
NextBookRetry ==
    \/ PolyOpen
    \/ PolyClose
    \/ PolyConnect
    \/ PolyWatchdog
    \/ BookRetryClock

SpecBookRetry == Init /\ [][NextBookRetry]_vars

\* One venue's trade messages, whole or with an entry that makes the handler
\* throw, next to the heartbeat.
NextWire ==
    \/ \E m \in WireMessages : nTicks < MaxTicks /\ TradesMessage(BasisVenue, m)
    \/ Heartbeat
    \/ nAdvances < MaxAdvances /\ Advance(SpikeWindowMs)

SpecWire == InitBasis /\ [][NextWire]_vars

\* A window runs out and is rolled over: trades and book messages arrive,
\* the heartbeat fires, the clock moves on within the first two windows, the
\* trading interval finds the expiry and discovery ends either way per asset.
NextRoll ==
    \/ \E a \in LiveAssets, m \in RollTicks :
          nTicks < MaxTicks /\ Tick(a, m[1], m[2])
    \/ \E a \in LiveAssets, m \in RollQuotes :
          nBookMsgs < MaxBookMsgs /\ BookMessage(a, m[1], tokenIds[a], m[2])
    \/ Heartbeat
    \/ /\ nAdvances < MaxRollAdvances /\ lastFairUpdate = now
       /\ Advance(IF now = T0 + ShortStepMs THEN LongStepMs ELSE ShortStepMs)
    \/ nRollovers + rollAwaiting < MaxRollovers /\ RolloverBegin
    \/ RolloverSkip
    \/ \E res \in [Assets -> Outcomes] : RolloverFinish(res)

SpecRoll == InitBasis /\ [][NextRoll]_vars

\* The rollover when the fetch of a window's open price may fail.
NextWindow ==
    \/ \E a \in LiveAssets, m \in RollTicks :
          nTicks < MaxTicks /\ Tick(a, m[1], m[2])
    \/ /\ nAdvances < MaxRollAdvances
       /\ Advance(IF now = T0 + ShortStepMs THEN LongStepMs ELSE ShortStepMs)
    \/ nRollovers + rollAwaiting < MaxRollovers /\ RolloverBegin
    \/ RolloverSkip
    \/ \E res \in [Assets -> PriceOutcomes] : RolloverFinish(res)

SpecWindow == InitBasis /\ [][NextWindow]_vars

\* The trading interval with the console switch, prices and book messages
\* coming in, and the rollover its callback awaits.
NextTrade ==
    \/ \E on \in BOOLEAN : TradeSwitch(on)
    \/ \E a \in LiveAssets, m \in RollTicks :
          nTicks < MaxTradeTicks /\ Tick(a, m[1], m[2])
    \/ \E a \in LiveAssets, m \in TradeQuotes :
          nBookMsgs < MaxTradeQuotes /\ BookMessage(a, m[1], tokenIds[a], m[2])
    \/ \E dt \in TradeSteps : nAdvances < MaxTradeAdvances /\ Advance(dt)
    \/ /\ nAdvances < MaxTradeAdvances /\ now < FoundStart + WindowMs
       /\ Advance(QuietStretchMs)
    \/ nRollovers + rollAwaiting < MaxRollovers /\ RolloverBegin
    \/ RolloverSkip
    \/ \E res \in [Assets -> Outcomes] : RolloverFinish(res)

SpecTrade == InitBasis /\ [][NextTrade]_vars

\* A rollover and the order-book socket: the trading interval runs the
\* check, discovery ends either way per asset, the socket closed by
\* reconnect() gets its close event, connection attempts fail or succeed,
\* the clock moves on as long as no reconnect timer is due.
NextResub ==
    \/ nRollovers + rollAwaiting < MaxRollovers /\ RolloverBegin
    \/ RolloverSkip
    \/ \E res \in [Assets -> Outcomes] : RolloverFinish(res)
    \/ /\ polyWs \in {"closing", "connecting"} /\ polyAttempts < MaxResubAttempts
       /\ PolyClose
    \/ PolyConnect
    \/ PolyOpen
    \/ /\ nAdvances < MaxResubAdvances /\ polyReconnectTimer # now
       /\ Advance(IF now = T0 + ShortStepMs THEN LongStepMs ELSE ShortStepMs)

SpecResub == InitBasis /\ [][NextResub]_vars

\* One clock step while every feed retries: no timer of any socket is due
\* before it, and no terminated socket still waits for its close event.
RetryClock ==
    /\ TimersAllow(FeedStepMs)
    /\ polyReconnectTimer = NoTimer \/ polyReconnectTimer >= now + FeedStepMs
    /\ polyHealthTimer = NoTimer \/ polyHealthTimer >= now + FeedStepMs
    /\ polyWs # "closing"
    /\ now + FeedStepMs <= T0 + MaxRetrySeconds * 1000
    /\ now' = now + FeedStepMs
    /\ UNCHANGED << anchor, botVars, srcVars, polyVars, fairVars, connVars,
                    lastMessageTs, budgetVars, otherVars, quietSinceRollover >>

\* Every feed from start-up with no message at all: sockets open or fail,
\* the network drops them, the watchdogs terminate the silent ones, the
\* reconnect timers fire.
NextRetry ==
    \/ \E v \in FeedVenues : Open(v)
    \/ \E v \in FeedVenues : (v \in FlakyVenues \/ ws[v] = "closing") /\ Close(v)
    \/ \E v \in FeedVenues : Connect(v)
    \/ \E v \in FeedVenues : HasWatchdog(v) /\ Watchdog(v)
    \/ PolyOpen
    \/ PolyClose
    \/ PolyConnect
    \/ PolyWatchdog
    \/ RetryClock

\* Timers fire when due, a socket that was closed or terminated gets its
\* close event, and time goes on.
RetryFairness ==
    /\ WF_vars(RetryClock)
    /\ \A v \in FeedVenues : WF_vars(Connect(v))
    /\ \A v \in FeedVenues : WF_vars(ws[v] = "closing" /\ Close(v))
    /\ \A v \in FeedVenues : WF_vars(HasWatchdog(v) /\ Watchdog(v))
    /\ WF_vars(PolyConnect)
    /\ WF_vars(polyWs = "closing" /\ PolyClose)
    /\ WF_vars(PolyWatchdog)

SpecRetry == Init /\ [][NextRetry]_vars /\ RetryFairness

\* The sockets of the order-book feed and of Binance, one by one: events of
\* any socket, forced closes and timers in any order.
NextConn ==
    \/ \E f \in ConnFeeds, i \in SockIds : ConnOpen(f, i)
    \/ \E f \in ConnFeeds, i \in SockIds : ConnClose(f, i)
    \/ \E f \in ConnFeeds, i \in SockIds : ConnError(f, i)
    \/ \E f \in ConnFeeds, i \in SockIds : ConnWatchdog(f, i)
    \/ \E f \in ConnFeeds : ConnReconnect(f)
    \/ \E f \in ConnFeeds : ConnTimer(f)

SpecConn == Init /\ [][NextConn]_vars

\* Trades around a rollover, from a start-up in which discovery may have
\* found no window for some asset: the rollover that an expired window
\* starts is that asset's next discovery.
NextLate ==
    \/ \E a \in Assets, m \in VenueTicks :
          nTicks < MaxTicks /\ Tick(a, m[1], m[2])
    \/ /\ nAdvances < MaxRollAdvances
       /\ Advance(IF now = T0 + ShortStepMs THEN LongStepMs ELSE ShortStepMs)
    \/ nRollovers + rollAwaiting < MaxRollovers /\ RolloverBegin
    \/ RolloverSkip
    \/ \E res \in [Assets -> Outcomes] : RolloverFinish(res)

SpecLate == InitSched /\ [][NextLate]_vars

\* The same runs with time going on and the trading interval firing: the
\* clock advances while the run lasts, a check that finds an expired window
\* is run, a discovery that was started ends.
LateFairness ==
    /\ WF_vars(/\ nAdvances < MaxRollAdvances
               /\ Advance(IF now = T0 + ShortStepMs THEN LongStepMs ELSE ShortStepMs))
    /\ WF_vars(nRollovers + rollAwaiting < MaxRollovers /\ RolloverBegin)
    /\ WF_vars(\E res \in [Assets -> Outcomes] : RolloverFinish(res))

SpecLateFair == InitSched /\ [][NextLate]_vars /\ LateFairness

\* The scheduling of recomputes: trades of one venue and UP quotes for any
\* asset, the heartbeat, and a clock that moves in steps shorter than the
\* throttle, from a start-up in which some assets may have no window.
NextSched ==
    \/ \E a \in Assets : nTicks < MaxTicks /\ Tick(a, BasisVenue, SchedPrice)
    \/ \E a \in Assets : nBookMsgs < MaxBookMsgs /\ BookMessage(a, "UP", 1, SchedQuote)
    \/ Heartbeat
    \/ nAdvances < MaxSchedAdvances /\ Advance(SchedStepMs)

SpecSched == InitSched /\ [][NextSched]_vars

\* Trades of every venue for every asset the venue follows, next to the
\* heartbeat.
NextVenue ==
    \/ \E m \in BitfinexTicks : nTicks < MaxTicks /\ BitfinexTick(m[1], m[2])
    \/ \E a \in Assets, m \in VenueTicks : nTicks < MaxTicks /\ Tick(a, m[1], m[2])
    \/ Heartbeat
    \/ nAdvances < MaxAdvances /\ Advance(SpikeWindowMs)

SpecVenue == InitBasis /\ [][NextVenue]_vars

\* The state in which a model object of either class has been constructed.
InitCalc == \E cls \in GbmClasses : StartedWith(Assets, DefaultAnchor, "open", cls)

\* A model object called in any order: addPrice, calculate and
\* getRecentPctChange, with the clock moving between calls.
NextCalc ==
    \/ \E p \in CalcPrices : calc.calls < MaxCalcCalls /\ CalcAddPrice(p)
    \/ \E c \in CalcCurrent, sp \in CalcStart, tau \in CalcTau :
          calc.calls < MaxCalcCalls /\ CalcCalculate(c, sp, tau)
    \/ calc.calls < MaxCalcCalls /\ CalcRecentPct(SpikeWindowMs)
    \/ \E dt \in CalcSteps : nAdvances < MaxCalcAdvances /\ Advance(dt)

SpecCalc == InitCalc /\ [][NextCalc]_vars

----------------------------------------------------------------------------
\* Properties.  A recompute is read off the observer lastRecompute: what
\* updatePerExchangeFairs met for the pair, next to what it left in basis,
\* latchStart and fairByExchange.

Seen(a, v) == lastRecompute[a][v]

\* The last recompute of (a, v) ran the calibration: a price, a start price
\* and an order-book UP mid > 0 were there.
Calibrated(a, v) ==
    /\ Seen(a, v).kind = "calc"
    /\ Seen(a, v).marketMid > 0
    /\ Seen(a, v).modelUp # NaN

\* The spike flag of that recompute, |recentPct| > 0.035.
SawSpike(a, v) == Seen(a, v).pct # NaN /\ Abs(Seen(a, v).pct) > SpikePctMilli

\* The offset that recompute started from: the stored one, or the one it
\* initialised to marketMid - modelUp.
OffsetBefore(a, v) ==
    IF Seen(a, v).basisBefore = Undef
    THEN Seen(a, v).marketMid - Seen(a, v).modelUp
    ELSE Seen(a, v).basisBefore

\* |modelUp + offset - marketMid| < 0.005 or |modelUp - marketMid| < 0.005
SawConverged(a, v) ==
    \/ Abs(Seen(a, v).modelUp + OffsetBefore(a, v) - Seen(a, v).marketMid) < ConvergeEps
    \/ Abs(Seen(a, v).modelUp - Seen(a, v).marketMid) < ConvergeEps

\* The recompute was calm and found the pair diverged.
SawCalmDiverged(a, v) ==
    Calibrated(a, v) /\ ~SawSpike(a, v) /\ OffsetBefore(a, v) # NaN /\ ~SawConverged(a, v)

\* The offset is the snapped one, the latch is clear.
Snapped(a, v) ==
    /\ basis[a][v] = Seen(a, v).marketMid - Seen(a, v).modelUp
    /\ latchStart[a][v] = 0

\* The latch the recompute found running, 0 if none.
LatchBefore(a, v) ==
    IF Seen(a, v).latchBefore = Undef THEN 0 ELSE Seen(a, v).latchBefore

\* C1: every asset's published fairProbs is a number, UP + DOWN = 1 and
\* 0.001 <= UP <= 0.999, also after the NaN fallback to the order-book mid.
C1_FairProbsInRange ==
    \A a \in Assets :
        /\ IsNum(fairProbs[a].UP) /\ IsNum(fairProbs[a].DOWN)
        /\ fairProbs[a].UP + fairProbs[a].DOWN = ProbScale
        /\ fairProbs[a].UP >= ClampLo /\ fairProbs[a].UP <= ClampHi

\* C2: getCombinedExchangeFair returns a value in [0.001, 0.999] for every
\* asset in every state, the fallback to the order-book mid or 0.5 included.
C2_CombinedInRange ==
    \A a \in Assets :
        /\ GetCombinedExchangeFair(a) >= ClampLo
        /\ GetCombinedExchangeFair(a) <= ClampHi

\* The venues the combined fair averages, written out from the filter's
\* three exclusions and the open interval.
C3_Eligible(a) ==
    { v \in ACTIVE_EXCHANGES \ ({anchor} \cup {"DEEPCOIN", "COINBASE", "BINANCE"}) :
        IsNum(fairByExchange[a][v])
        /\ 0 < fairByExchange[a][v] /\ fairByExchange[a][v] < ProbScale }

RECURSIVE C3_Sum(_, _)
C3_Sum(a, S) ==
    IF S = {} THEN 0
    ELSE LET v == CHOOSE x \in S : TRUE IN fairByExchange[a][v] + C3_Sum(a, S \ {v})

\* C3: getCombinedExchangeFair is the arithmetic mean (to the model's unit)
\* of the values of the active venues that are not the anchor, not marked
\* non-comparable and strictly inside (0,1); without such a value it is the
\* order-book UP mid if that is non-zero and 0.5 otherwise.
C3_CombinedIsMean ==
    \A a \in Assets :
        LET n == Cardinality(C3_Eligible(a))
            sum == C3_Sum(a, C3_Eligible(a))
            got == GetCombinedExchangeFair(a)
        IN  IF n = 0
            THEN got = (IF book[a]["UP"].mid # 0 THEN book[a]["UP"].mid ELSE Neutral)
            ELSE n * got <= sum /\ sum < n * (got + 1)

\* C3 witness: two eligible venues with different values, and an anchor
\* that holds a value of its own.
C3_Witness ==
    \E a \in Assets :
        /\ Cardinality(C3_Eligible(a)) = 2
        /\ \E v, w \in C3_Eligible(a) : fairByExchange[a][v] # fairByExchange[a][w]
        /\ book[a]["UP"].mid > 0

\* C4: after updateAllFairs every per-venue calibrated value is a number in
\* [0.001, 0.999].
C4_PerVenueInRange ==
    \A a \in Assets, v \in ACTIVE_EXCHANGES :
        Seen(a, v).kind \in {"calc", "noprice"} =>
            /\ IsNum(fairByExchange[a][v])
            /\ fairByExchange[a][v] >= ClampLo /\ fairByExchange[a][v] <= ClampHi

C6_ConvergedSnaps ==
    \A a \in Assets, v \in ACTIVE_EXCHANGES :
        (Calibrated(a, v) /\ ~SawSpike(a, v) /\ OffsetBefore(a, v) # NaN
            /\ SawConverged(a, v)) => Snapped(a, v)

\* C6 witness: a converged calm recompute that moved an existing offset.
C6_Witness ==
    \E a \in Assets, v \in ACTIVE_EXCHANGES :
        /\ Calibrated(a, v) /\ ~SawSpike(a, v) /\ SawConverged(a, v)
        /\ Seen(a, v).basisBefore # Undef /\ Seen(a, v).basisBefore # NaN
        /\ basis[a][v] # Seen(a, v).basisBefore
        /\ Snapped(a, v)

\* C7 as stated: on a calm diverged recompute the offset is force-snapped
\* as soon as the recompute's time is >= 3,000 ms after the latch start.
C7_SnapAtThreeSeconds ==
    \A a \in Assets, v \in ACTIVE_EXCHANGES :
        (SawCalmDiverged(a, v) /\ LatchBefore(a, v) > 0
            /\ Seen(a, v).at - LatchBefore(a, v) >= LatchTimeoutMs) => Snapped(a, v)

\* C7 amended: on a calm diverged recompute the latch start is set to the
\* recompute's time if no latch runs, and the offset is held; with a latch
\* running the offset is force-snapped and the latch cleared exactly when
\* the recompute's time is more than 3,000 ms after the latch start, and
\* offset and latch are left as they were otherwise.
C7_LatchTimeout ==
    \A a \in Assets, v \in ACTIVE_EXCHANGES :
        SawCalmDiverged(a, v) =>
            IF LatchBefore(a, v) = 0
            THEN latchStart[a][v] = Seen(a, v).at /\ basis[a][v] = OffsetBefore(a, v)
            ELSE IF Seen(a, v).at - LatchBefore(a, v) > LatchTimeoutMs
            THEN Snapped(a, v)
            ELSE /\ basis[a][v] = Seen(a, v).basisBefore
                 /\ latchStart[a][v] = Seen(a, v).latchBefore

\* C7 witness: a forced snap, more than 3,000 ms after the latch start.
C7_Witness ==
    \E a \in Assets, v \in ACTIVE_EXCHANGES :
        /\ SawCalmDiverged(a, v)
        /\ LatchBefore(a, v) > 0
        /\ Seen(a, v).at - LatchBefore(a, v) > LatchTimeoutMs
        /\ Snapped(a, v)

\* The time of the venue's last tick for the asset, 0 if none.
LastTickTs(a, v) ==
    IF Len(gbm[a][v].history) = 0 THEN 0
    ELSE gbm[a][v].history[Len(gbm[a][v].history)].ts

\* C8: with recomputes running, a window and a mid > 0, a pair whose venue
\* has delivered no tick since its divergence began is re-snapped by the
\* first recompute more than 3,000 ms into the divergence: no recompute
\* later than that leaves it diverged.
C8_DivergenceEnds ==
    \A a \in Assets, v \in ACTIVE_EXCHANGES :
        (divergedSince[a][v] > 0 /\ LastTickTs(a, v) <= divergedSince[a][v])
            => Seen(a, v).at - divergedSince[a][v] <= LatchTimeoutMs

\* C9: while a reconnect is pending, its delay is min(1000 * k, 10000) for
\* the k-th close since the last open; an open socket has the attempt
\* counter at 0.
C9_Backoff ==
    \A v \in ACTIVE_EXCHANGES :
        /\ reconnectTimer[v] # NoTimer =>
              /\ closesSinceOpen[v] >= 1
              /\ timerDelay[v] = Min(BackoffStepMs * closesSinceOpen[v], BackoffCapMs)
              /\ reconnectTimer[v] <= now + timerDelay[v]
        /\ ws[v] = "open" => reconnectAttempts[v] = 0

\* C9 witness: the 11th consecutive close waits the capped 10,000 ms.
C9_Witness ==
    \E v \in ACTIVE_EXCHANGES :
        /\ reconnectTimer[v] # NoTimer
        /\ closesSinceOpen[v] = 11
        /\ timerDelay[v] = BackoffCapMs

\* C10: no feed stays open once its last message is older than the 5,000 ms
\* limit plus one 2,000 ms watchdog interval.
C10_EveryFeedWatched ==
    \A v \in FeedVenues :
        (ws[v] = "open" /\ lastMessageTs[v] >= T0)
            => now - lastMessageTs[v] <= StaleAfterMs + HealthIntervalMs

\* The time for which the socket the watchdog terminated had been without a
\* message: since its last message, or since it was created if none arrived
\* on it.
TornDownAfter == polyTeardown.at - Max(polyTeardown.lastMessage, polyTeardown.connectedAt)

\* C11: the order-book watchdog terminates the connection only at a check
\* that finds it without a message for more than 15,000 ms, and a check that
\* finds that leaves no open socket behind.
C11_BookWatchdog ==
    /\ polyTeardown.at > 0 => TornDownAfter > BookStaleAfterMs
    /\ (polyWs = "open" /\ polyHealthTimer # NoTimer)
          => now - Max(polyLastMessageTs, polyConnectedAt)
                <= BookStaleAfterMs + BookHealthIntervalMs

\* A stored price is a finite number > 0.
GoodPrice(p) == IsNum(p) /\ p > 0

\* C12: every venue's current price is 0 (none yet) or a finite number > 0,
\* every start price likewise, and every tick of every price history holds a
\* finite number > 0.
C12_StoredPricesPositive ==
    \A a \in Assets, v \in ACTIVE_EXCHANGES :
        /\ srcPrice[a][v] = 0 \/ GoodPrice(srcPrice[a][v])
        /\ srcStartPrice[a][v] = 0 \/ GoodPrice(srcStartPrice[a][v])
        /\ \A i \in 1..Len(gbm[a][v].history) : GoodPrice(gbm[a][v].history[i].price)

\* C13: after a trade message whose handling threw, every current price and
\* every price history is as it was before the message, and onUpdate was
\* not called for it; the socket is still open.
C13_ThrowingMessageDropped ==
    lastWire.threw =>
        /\ lastWire.applied = 0 /\ lastWire.callbacks = 0
        /\ srcPrice = lastWire.priceBefore
        /\ \A a \in Assets, v \in ACTIVE_EXCHANGES :
               Len(gbm[a][v].history) = lastWire.ticksBefore[a][v]
        /\ ws[BasisVenue] = "open"

\* The step in which a rollover completes.
RolloverCompletes == nRollovers' = nRollovers + 1

NeutralProbs == [UP |-> Neutral, DOWN |-> Neutral]

\* C14: once a rollover has completed, every asset's fairProbs reads
\* {0.5, 0.5} for as long as no trade and no order-book message has arrived.
C14_NeutralAfterRollover ==
    quietSinceRollover => \A a \in Assets : fairProbs[a] = NeutralProbs

\* C15: after a rollover in which discovery found the asset's new window,
\* the asset's start time is the new window's and every venue's start price,
\* Binance's included, is the new window's start price.
C15_NewWindowEverywhere ==
    \A a \in Assets :
        rolledTo[a] > 0 =>
            /\ startTimes[a] = rolledTo[a]
            /\ \A v \in ACTIVE_EXCHANGES : srcStartPrice[a][v] = startPrices[a]

\* C16: updateAllFairs never runs between a rollover's expiry detection and
\* its final estimate reset.
C16_NoRecomputeInRollover == ~ranInRollover

\* The step is a recompute of (a, v) that runs the calibration and is the
\* first to run in its window: the pair's last recompute ran in another one.
FirstInWindow(a, v) ==
    /\ lastRecompute'[a][v] # lastRecompute[a][v]
    /\ lastRecompute'[a][v].kind = "calc"
    /\ lastRecompute[a][v].window # 0
    /\ lastRecompute'[a][v].window # lastRecompute[a][v].window

\* C17: the first calibrating recompute of a pair in a new window finds no
\* basis offset and no running latch left from the window before.
C17_RolloverResetsBasis ==
    [][\A a \in Assets, v \in ACTIVE_EXCHANGES :
          FirstInWindow(a, v) =>
              /\ lastRecompute'[a][v].basisBefore = Undef
              /\ lastRecompute'[a][v].latchBefore \in {Undef, 0}]_vars

\* C18: a rollover in which discovery fails for an expired asset leaves that
\* asset's start time, start price and token ids as they were, and leaves
\* the start time, start price, fairProbs and order-book socket of every
\* asset whose window is valid and unexpired as they were.
C18_FailureIsolated ==
    [][(RolloverCompletes /\ \E b \in Assets : IsExpired(b) /\ rolledTo'[b] = 0) =>
          /\ \A b \in Assets :
                (IsExpired(b) /\ rolledTo'[b] = 0) =>
                    /\ startTimes'[b] = startTimes[b]
                    /\ startPrices'[b] = startPrices[b]
                    /\ tokenIds'[b] = tokenIds[b]
          /\ \A a \in Assets :
                (startTimes[a] > 0 /\ ~IsExpired(a)) =>
                    /\ startTimes'[a] = startTimes[a]
                    /\ startPrices'[a] = startPrices[a]
                    /\ fairProbs'[a] = fairProbs[a]
                    /\ polyWs' = polyWs]_vars

\* C19: an asset without a window keeps fairProbs {0.5, 0.5} and no
\* per-venue value other than 0.5, and every asset with a running window
\* was recomputed by the last onUpdate that passed the throttle, whichever
\* asset is without a window.
C19_MissingWindowIsolated ==
    \A a \in Assets :
        /\ (startTimes[a] = 0 \/ startPrices[a] = 0) =>
              /\ fairProbs[a] = NeutralProbs
              /\ \A v \in ACTIVE_EXCHANGES : fairByExchange[a][v] \in {Undef, Neutral}
        /\ (lastFairUpdate > 0 /\ PerExchangeRuns(a, lastFairUpdate)) =>
              \A v \in ACTIVE_EXCHANGES : Seen(a, v).at = lastFairUpdate

\* C20: any two consecutive runs of updateAllFairs are at least 50 ms apart.
C20_RecomputeSpacing ==
    fairRuns[1] > 0 => fairRuns[2] - fairRuns[1] >= FairThrottleMs

\* C20 witness: after trades and book messages at a higher rate, two
\* consecutive runs exactly 50 ms apart.
C20_Witness ==
    /\ fairRuns[1] > 0
    /\ fairRuns[2] - fairRuns[1] = FairThrottleMs
    /\ nTicks + nBookMsgs >= 2

\* The price state of a pair of the active venues: current price, start
\* price, history and variance.
Slice(P, SP, G, a, v) ==
    << P[a][v], SP[a][v], G[a][v].history, G[a][v].ewmaVariance >>

\* The same for an asset of the Bitfinex source.
BitfinexSlice(bf, a) ==
    << bf.price[a], bf.startPrice[a], bf.startPrices[a], bf.gbm[a].history,
       bf.gbm[a].ewmaVariance >>

\* The step leaves every pair's price state other than that of (a, v) as it
\* was, and every asset's window start time and start price.
OnlySliceTouched(a, v) ==
    /\ \A b \in Assets, w \in ACTIVE_EXCHANGES :
          (b # a \/ w # v) =>
              Slice(srcPrice', srcStartPrice', gbm', b, w)
                 = Slice(srcPrice, srcStartPrice, gbm, b, w)
    /\ \A b \in AssetSymbols :
          (b # a \/ v # "BITFINEX") =>
              BitfinexSlice(bitfinex', b) = BitfinexSlice(bitfinex, b)
    /\ startTimes' = startTimes
    /\ startPrices' = startPrices

\* C21: a tick for asset A on venue V changes no current price, start price,
\* history or variance of another asset or another venue, and no asset's
\* window start time or start price.
C21_TickTouchesOwnSlice ==
    [][/\ \A a \in AssetSymbols :
            (\E m \in BitfinexTicks : m[1] = a /\ BitfinexTick(a, m[2]))
                => OnlySliceTouched(a, "BITFINEX")
       /\ \A a \in Assets, v \in ACTIVE_EXCHANGES :
            (\E m \in VenueTicks : m[1] = v /\ Tick(a, v, m[2]))
                => OnlySliceTouched(a, v)]_vars

\* The last call on the model object was calculate() with a window that is
\* over or a price <= 0.
DegenerateCall ==
    /\ calc.op = "calculate"
    /\ (calc.tauMs <= 0 \/ LeqZero(calc.price) \/ LeqZero(calc.startPrice))

\* C22: calculate with minutesRemaining <= 0 or a price <= 0 returns UP = 1,
\* DOWN = 0 if currentPrice >= startPrice and UP = 0, DOWN = 1 otherwise, and
\* leaves history, variance and smoothing memory as they were.
C22_DegenerateOneHot ==
    DegenerateCall =>
        /\ IF IsNum(calc.price) /\ IsNum(calc.startPrice) /\ calc.price >= calc.startPrice
           THEN calc.UP = ProbScale /\ calc.DOWN = 0
           ELSE calc.UP = 0 /\ calc.DOWN = ProbScale
        /\ calc.g = calc.before

\* C22 witness: a call after the window's end with currentPrice equal to
\* startPrice, on a model that holds ticks and a smoothing memory.
C22_Witness ==
    /\ DegenerateCall
    /\ calc.tauMs <= 0 /\ calc.price = calc.startPrice /\ calc.price > 0
    /\ Len(calc.before.history) > 0 /\ calc.before.lastFairUp # Undef
    /\ calc.UP = ProbScale

\* The last call on the model object was calculate() with both prices > 0
\* and time left in the window.
ProperCall ==
    /\ calc.op = "calculate"
    /\ calc.tauMs > 0 /\ GtZero(calc.price) /\ GtZero(calc.startPrice)

\* C23: calculate with both prices > 0 and minutesRemaining > 0 returns, in
\* any state of the model, numbers with UP + DOWN = 1, 0.001 <= UP <= 0.999
\* and 0.001 <= DOWN <= 0.999.
C23_ProperResultInRange ==
    ProperCall =>
        /\ IsNum(calc.UP) /\ IsNum(calc.DOWN)
        /\ calc.UP + calc.DOWN = ProbScale
        /\ ClampLo <= calc.UP /\ calc.UP <= ClampHi
        /\ ClampLo <= calc.DOWN /\ calc.DOWN <= ClampHi

\* C24: calculate with time left and currentPrice equal to startPrice (> 0)
\* returns UP = 0.5 and DOWN = 0.5 in any state of the model.
C24_AtTheMoneyIsHalf ==
    (ProperCall /\ calc.price = calc.startPrice) =>
        calc.UP = Neutral /\ calc.DOWN = Neutral

\* The last recompute of (a, v) computed a model probability and found the
\* pair without an offset.
FirstOffsetCase(a, v) ==
    Seen(a, v).kind = "calc" /\ Seen(a, v).basisBefore = Undef

\* C25 as stated: a recompute that finds the pair without an offset leaves
\* offset = marketMid - modelUp and publishes clamp(marketMid, 0.001, 0.999).
C25_FirstPublishedIsMid ==
    \A a \in Assets, v \in ACTIVE_EXCHANGES :
        FirstOffsetCase(a, v) =>
            /\ basis[a][v] = Seen(a, v).marketMid - Seen(a, v).modelUp
            /\ fairByExchange[a][v] = Clamp(Seen(a, v).marketMid)

\* C25 amended: a recompute that finds the pair without an offset, with a
\* finite model probability, leaves offset = marketMid - modelUp and
\* publishes clamp(marketMid, 0.001, 0.999) if the order-book UP mid is > 0,
\* whatever the spike flag; without a mid it creates no offset and publishes
\* clamp(modelUp, 0.001, 0.999).
C25_FirstOffset ==
    \A a \in Assets, v \in ACTIVE_EXCHANGES :
        (FirstOffsetCase(a, v) /\ Seen(a, v).modelUp # NaN) =>
            IF Seen(a, v).marketMid > 0
            THEN /\ basis[a][v] = Seen(a, v).marketMid - Seen(a, v).modelUp
                 /\ fairByExchange[a][v] = Clamp(Seen(a, v).marketMid)
            ELSE /\ basis[a][v] = Undef
                 /\ fairByExchange[a][v] = Clamp(Seen(a, v).modelUp)

\* C25 witness: the first offset of a pair, created by a recompute whose
\* model probability is 0.005 or more away from the mid.
C25_Witness ==
    \E a \in Assets, v \in ACTIVE_EXCHANGES :
        /\ FirstOffsetCase(a, v) /\ Seen(a, v).marketMid > 0
        /\ Abs(Seen(a, v).modelUp - Seen(a, v).marketMid) >= ConvergeEps
        /\ basis[a][v] = Seen(a, v).marketMid - Seen(a, v).modelUp
        /\ fairByExchange[a][v] = Seen(a, v).marketMid

\* The ticks of history h that are at least ms old at time t.
OldEnough(h, t, ms) == { j \in 1..Len(h) : h[j].ts <= t - ms }

\* The percentage change (units of 0.001 %) from the most recent tick of h
\* at or before t - ms to the latest tick; 0 with fewer than two ticks or no
\* tick that old.
PctOverLast(h, t, ms) ==
    IF Len(h) < 2 \/ OldEnough(h, t, ms) = {} THEN 0
    ELSE LET i == CHOOSE j \in OldEnough(h, t, ms) :
                      \A k \in OldEnough(h, t, ms) : k <= j
         IN  Quot((h[Len(h)].price - h[i].price) * 100000, h[i].price)

\* C26: on a history of finite prices, getRecentPctChange(windowMs) returns
\* the percentage change from the most recent tick at or before (time of the
\* call - windowMs) to the latest tick, and 0 with fewer than two ticks or no
\* tick that old.
C26_PctOverRealTime ==
    (/\ calc.op = "recentPct"
     /\ \A j \in 1..Len(calc.before.history) : IsNum(calc.before.history[j].price))
        => calc.pct = PctOverLast(calc.before.history, calc.at, calc.ms)

\* The history of the model object and its retention horizon.
CalcHistory == calc.g.history

CalcRetentionMs == IF calc.cls = "plain" THEN RetentionMs ELSE 48 * 3600 * 1000

\* The history is in non-decreasing timestamp order and holds no tick older
\* than the retention horizon, counted from its newest tick.
HistoryKept ==
    /\ \A i, j \in 1..Len(CalcHistory) :
          i < j => CalcHistory[i].ts <= CalcHistory[j].ts
    /\ \A i \in 1..Len(CalcHistory) :
          CalcHistory[i].ts >= CalcHistory[Len(CalcHistory)].ts - CalcRetentionMs

\* The price of the retained tick before the one the last addPrice appended,
\* 0 if there is none.
PrevRetained ==
    IF Len(CalcHistory) > 1 THEN CalcHistory[Len(CalcHistory) - 1].price ELSE 0

\* lambda * ewmaVariance + (1 - lambda) * r^2 with r = ln(p / prevP), from
\* the variance the last addPrice found.
EwmaStep ==
    IF calc.price = NaN THEN NaN
    ELSE Quot(LambdaMilli * calc.before.ewmaVariance
                + (1000 - LambdaMilli) * LogMicro(calc.price, PrevRetained)
                                       * LogMicro(calc.price, PrevRetained), 1000)

ChecksExpiry == lastCheck' # lastCheck

\* Some asset has a known start time and the clock is past its window's end
\* by more than the grace period.
SomeWindowOver ==
    \E a \in Assets :
        startTimes[a] > 0 /\ now > startTimes[a] + WindowMs + RolloverGraceMs

BookFeedOpens == polyWs = "connecting" /\ polyWs' = "open"

\* The token ids of the windows the finder holds, per asset.
CurrentTokens == [a \in Assets |-> finder[a].token]

\* C29: a rollover started by any expired window takes the outcome of
\* discovery for every asset, expired or not, then leaves the order-book
\* socket neither open nor connecting; the next open of the socket
\* subscribes to exactly the token ids of the windows the finder holds for
\* all assets, none of a window that has been replaced.
C29_ResubscribesCurrentTokens ==
    [][/\ RolloverCompletes =>
            /\ \A a \in Assets : rolledTo'[a] # 0 => finder'[a] = FoundNext
            /\ tokenIds' = [a \in Assets |-> finder'[a].token]
            /\ polyWs' \notin {"open", "connecting"}
       /\ (BookFeedOpens /\ nRollovers > 0) =>
            /\ polySub' = CurrentTokens
            /\ \A a \in Assets :
                  finder[a].startTime # FoundStart => polySub'[a] # FoundWindow.token
      ]_vars

\* C29 witness: the socket that connect() created after a rollover check is
\* open and subscribed to the finder's token ids, one of them of the new
\* window.
C29_Witness ==
    /\ nRollovers > 0 /\ polyWs = "open" /\ polyConnectedAt > lastCheck.at
    /\ polySub = CurrentTokens
    /\ \E a \in Assets : polySub[a] = FoundNext.token

\* C30: a valid tick for (asset, venue) records its price as the venue's
\* start price when that start price is 0 and the asset's window start time
\* is known, and changes no start price that is set; for every venue, before
\* and after a rollover.
C30_TickRecordsStartPrice ==
    [][\A a \in Assets, v \in ACTIVE_EXCHANGES :
          \A m \in VenueTicks :
             (m[1] = v /\ GtZero(m[2]) /\ Tick(a, v, m[2])) =>
                 /\ (srcStartPrice[a][v] = 0 /\ startTimes[a] > 0)
                       => srcStartPrice'[a][v] = m[2]
                 /\ srcStartPrice[a][v] # 0
                       => srcStartPrice'[a][v] = srcStartPrice[a][v]]_vars

\* The last call was a proper calculate() of the class without smoothing.
ProperPlainCall == ProperCall /\ calc.cls = "plain"

\* max(estimateVolatilityPerMinute(), 0.001 / sqrt(max(0.1, sqrt(tau)))),
\* in units of 1e-6.
SigmaWithRootedFloor(ewma, tauMs) ==
    Max(EstimateVolatilityPerMinute(ewma),
        Quot(GapRiskMicro * 1000, ISqrt(Max(100, SqrtTauMilli(tauMs)) * 1000)))

\* max(estimateVolatilityPerMinute(), 0.001 / max(0.1, sqrt(tau))), in
\* units of 1e-6.
SigmaWithFloor(ewma, tauMs) ==
    Max(EstimateVolatilityPerMinute(ewma),
        Quot(GapRiskMicro * 1000, Max(100, SqrtTauMilli(tauMs))))

\* The clamped CDF of ln(currentPrice/startPrice) / (sigma * sqrt(tau)) for
\* the arguments of the last call (sigma in 1e-6).
UpUnder(sigma) ==
    Clamp(NormCDF(Quot(LogMicro(calc.price, calc.startPrice) * 100000,
                       sigma * SqrtTauMilli(calc.tauMs))))

\* C31 as stated: a proper calculate() uses sigma =
\* max(estimateVolatilityPerMinute(), 0.001 / sqrt(max(0.1, sqrt(tau)))) and
\* d = ln(currentPrice/startPrice) / (sigma * sqrt(tau)).
C31_SigmaRootedGapRisk ==
    ProperPlainCall =>
        calc.UP = UpUnder(SigmaWithRootedFloor(calc.before.ewmaVariance, calc.tauMs))

\* C31 amended: a proper calculate() of the class without smoothing uses
\* sigma = max(estimateVolatilityPerMinute(), 0.001 / max(0.1, sqrt(tau)))
\* and d = ln(currentPrice/startPrice) / (sigma * sqrt(tau)).
C31_SigmaGapRisk ==
    ProperPlainCall =>
        calc.UP = UpUnder(SigmaWithFloor(calc.before.ewmaVariance, calc.tauMs))

\* C31 witness: a proper call one second before the window's end, away
\* from the start price, where the floor is above the estimated volatility.
C31_Witness ==
    /\ ProperPlainCall /\ calc.price # calc.startPrice
    /\ SigmaWithFloor(calc.before.ewmaVariance, calc.tauMs)
          > EstimateVolatilityPerMinute(calc.before.ewmaVariance)
    /\ calc.UP = UpUnder(SigmaWithFloor(calc.before.ewmaVariance, calc.tauMs))
    /\ calc.UP # Neutral

\* The last instant of the runs in which every feed retries.
RetryHorizon == T0 + MaxRetrySeconds * 1000

\* C32: whenever a feed's socket has closed, connect() is eventually called
\* again, after any number of failures in a row, for the exchange feeds and
\* for the order-book feed (as far as the reconnect is due within the run).
C32_ReconnectNeverGivenUp ==
    /\ \A v \in FeedVenues :
          (ws[v] = "closed" /\ reconnectTimer[v] <= RetryHorizon)
              ~> (ws[v] = "connecting")
    /\ (polyWs = "closed" /\ polyReconnectTimer <= RetryHorizon)
          ~> (polyWs = "connecting")

\* C32 witness: an exchange feed and the order-book feed are connecting
\* again, each after failures in a row.
C32_Witness ==
    /\ \E v \in FeedVenues : ws[v] = "connecting" /\ reconnectAttempts[v] >= 3
    /\ polyWs = "connecting" /\ polyAttempts >= 2

\* The sockets of feed f that have not had their 'close' event.
LiveSockets(f) == { i \in SockIds : Live(conn[f].sock[i]) }

\* C33: for each feed, in any interleaving of watchdog-forced closes, error
\* events, reconnect() calls and close events, there is never more than one
\* pending reconnect timer, one running watchdog interval or one live
\* socket.
C33_OneAttemptOwner ==
    \A f \in ConnFeeds :
        /\ conn[f].timers <= 1
        /\ Cardinality(conn[f].watchdogs) <= 1
        /\ Cardinality(LiveSockets(f)) <= 1

\* C33 witness: the order-book feed has had a watchdog-forced close, an
\* error event, a reconnect() and close events, and its latest socket is
\* open.
C33_Witness ==
    /\ conn["BOOK"].seen = {"close", "error", "watchdog", "reconnect"}
    /\ conn["BOOK"].made = MaxSockets
    /\ conn["BOOK"].sock[conn["BOOK"].cur] = "open"

\* C34: at most one call of the rollover check is past its expiry test and
\* awaiting discovery at any time.
C34_OneRolloverPipeline == rollAwaiting <= 1

\* C35: an asset whose discovery at start-up failed (start time 0) has its
\* discovery attempted again: from any state before the first rollover check
\* that found an expiry, a call of findMarkets() eventually follows.
C35_FailedDiscoveryRetried ==
    \A a \in Assets :
        (startTimes[a] = 0 /\ nRollovers = 0 /\ rollAwaiting = 0)
            ~> (rollAwaiting > 0)

\* The step is a 'close' event of the order-book socket.
BookFeedCloses == polyWs # "closed" /\ polyWs' = "closed"

\* The step is an 'open' event of the order-book socket.
BookFeedOpened == polyWs # "open" /\ polyWs' = "open"

C37_BookSocketGivenItsTime ==
    polyTeardown.at > 0 =>
        /\ polyTeardown.at - polyTeardown.connectedAt > BookStaleAfterMs
        /\ polyTeardown.at - polyTeardown.lastMessage > BookStaleAfterMs

\* C38: a book entry that reads as available (mid > 0) was written by a
\* message for the asset's current token id; after a rollover to new token
\* ids the entry reads as unavailable until such a message arrives.
C38_BookOfCurrentWindow ==
    \A a \in Assets, s \in Sides :
        book[a][s].mid > 0 => book[a][s].token = tokenIds[a]

\* The open price of the window that starts at t.
OpenPriceOf(t) == IF t = FoundStart THEN BasePrice ELSE NextWindowPrice

\* C39: the start time and the start price held for an asset, by the market
\* finder and (under the Binance anchor) by the bot, are those of one
\* window: a start price that is set is the open price of the window whose
\* start time is held.
C39_StartPriceOfHeldWindow ==
    \A a \in Assets :
        /\ (finder[a].startTime > 0 /\ finder[a].startPrice > 0)
              => finder[a].startPrice = OpenPriceOf(finder[a].startTime)
        /\ (anchor = "BINANCE" /\ startTimes[a] > 0 /\ startPrices[a] > 0)
              => startPrices[a] = OpenPriceOf(startTimes[a])

\* An order has been initiated for asset a.
Ordered(a) == trade.orders[a].at > 0

\* C40: an order is initiated only with trading enabled, at least the
\* cooldown after the previous order's initiation for the asset, with start
\* and current price above 0, time left in the window, an edge above the
\* threshold, a known token id and a mid above 0 for the side.
C40_TradeOnlyWhenAllowed ==
    \A a \in Assets : Ordered(a) =>
        LET o == trade.orders[a] IN
        /\ o.enabled
        /\ o.prevAt > 0 => o.at - o.prevAt >= TradeCooldownMs
        /\ o.startPrice > 0 /\ o.currentPrice > 0
        /\ o.leftMs > 0
        /\ o.edge > PriceDifferenceThreshold
        /\ o.token # 0
        /\ o.price > 0

====
